---- MODULE Spec2Model ----
(***************************************************************************)
(* Model of the correlation-crack strategy engine of the trading bot:      *)
(* CorrelationCrackStrategy (validate, execute, checkCrossCondition and    *)
(* its private helpers) together with the date helpers it imports; and of  *)
(* its market-data access layer: TokenBucketRateLimiter and the request    *)
(* methods of the two market data providers with their retry loop, the    *)
(* providers' initialize / disconnect / isHealthy, InMemoryMarketDataCache *)
(* and HighLowIndicator.  Each part has its own next-state relation and    *)
(* leaves the others' variables unchanged.                                 *)
(*                                                                         *)
(* execute is an async function.  Each action below is one run-to-        *)
(* completion segment of it: from the resolution (or rejection) of the     *)
(* promise it awaits up to the next await or to its return.  The market    *)
(* data provider and the high/low indicator are injected collaborators;    *)
(* what they answer is drawn from small sets.                              *)
(*                                                                         *)
(* Prices are integers (ticks).  The confidence score is an exact          *)
(* rational [n, d]; floating-point rounding is not modelled.               *)
(***************************************************************************)
EXTENDS Integers, Sequences, FiniteSets, TLC

VARIABLES pc, config, idx, assetData, referenceLevels, conditions, result,
          log, cc

\* The token-bucket rate limiter, the clock it reads and its callers.
VARIABLES now, tokens, lastRefill, rl, waiters, answer, calls

limiterVars == <<now, tokens, lastRefill, rl, waiters, answer, calls>>

\* A request to a market data provider and what it did, in order.
VARIABLES request, trace

providerVars == <<request, trace>>

\* The two providers as objects (their private fields), the initialize,
\* disconnect or isHealthy call under way, what that call did, and whether
\* the provider's last initialize succeeded with no disconnect since.
VARIABLES binance, capitalCom, life, wire, initialized

lifecycleVars == <<binance, capitalCom, life, wire, initialized>>

\* InMemoryMarketDataCache: its map, its sweeper timer and the answer of the
\* last call; unswept is the map of a cache given the same calls whose
\* sweeper never runs and lastSet the last set of each key that no delete,
\* clear or destroy followed (both history).
VARIABLES cache, cleanupInterval, got, unswept, lastSet

cacheVars == <<cache, cleanupInterval, got, unswept, lastSet>>

\* A getMarketData call on the Binance provider that consults the cache,
\* and what the call did, in order.
VARIABLES fetch, sent

snapshotVars == <<fetch, sent>>

\* A HighLowIndicator.calculate call: its arguments, the wall clock it
\* read and what it answered.
VARIABLES indicator

\* A direct isWithinSession call: its arguments and its answer.
VARIABLES membership

\* The candle times getKlines made of one venue timestamp.
VARIABLES aligned

\* A Binance provider shared by data requests issued concurrently: its
\* isInitialized flag, where each request stands, whether a disconnect is
\* awaiting close, and how many runs of initialize succeeded since
\* construction or the last disconnect (history).
VARIABLES lazy

indicatorVars == <<indicator, membership, aligned, lazy>>

strategyVars == <<pc, config, idx, assetData, referenceLevels, conditions,
                  result, log, cc>>

\* What a strategy run leaves alone.
accessVars ==
  <<limiterVars, providerVars, lifecycleVars, cacheVars, snapshotVars,
    indicatorVars>>

\* What the rate limiter leaves alone.
outsideLimiter ==
  <<strategyVars, providerVars, lifecycleVars, cacheVars, snapshotVars,
    indicatorVars>>

\* What a provider request leaves alone.
outsideProvider ==
  <<strategyVars, limiterVars, lifecycleVars, cacheVars, snapshotVars,
    indicatorVars>>

\* What initialize, disconnect and isHealthy leave alone.
outsideLifecycle ==
  <<strategyVars, limiterVars, providerVars, cacheVars, snapshotVars,
    indicatorVars>>

\* What the cache leaves alone, the clock apart.
outsideCache ==
  <<strategyVars, providerVars, lifecycleVars, snapshotVars, indicatorVars,
    tokens, lastRefill, rl, waiters, answer, calls>>

\* What a getMarketData call through the cache leaves alone, the cache and
\* isInitialized apart.
outsideSnapshot ==
  <<strategyVars, limiterVars, providerVars, indicatorVars, capitalCom,
    life, wire, cleanupInterval>>

\* What a calculate call of the indicator leaves alone.
outsideIndicator ==
  <<strategyVars, limiterVars, providerVars, lifecycleVars, cacheVars,
    snapshotVars>>

vars ==
  <<strategyVars, limiterVars, providerVars, lifecycleVars, cacheVars,
    snapshotVars, indicatorVars>>

(***************************************************************************)
(* Optional values: <<>> is an omitted (undefined) field, <<v>> a present  *)
(* one.                                                                    *)
(***************************************************************************)
Undefined == <<>>

Some(v) == <<v>>

\* JavaScript's  a || d  on an optional number: undefined and 0 are falsy.
OrDefault(a, d) == IF a = Undefined \/ a[1] = 0 THEN d ELSE a[1]

(***************************************************************************)
(* Program constants.                                                      *)
(***************************************************************************)
CROSS_OVER == "cross_over"

CROSS_UNDER == "cross_under"

CrossDirection == {CROSS_OVER, CROSS_UNDER}

CROSS_DETECTION_LOOKBACK_PERIODS == 10

MinPrimaryAssets == 2

MaxPrimaryAssets == 4

DefaultMinCorrelatedAssets == 1

\* STRATEGY_CONSTANTS of the confidence score, as exact rationals.
BASE_CONFIDENCE_SCORE == [n |-> 1, d |-> 2]

CONFIDENCE_INCREMENT_PER_ASSET == [n |-> 1, d |-> 10]

MAX_DISTANCE_CONFIDENCE_BOOST == [n |-> 3, d |-> 10]

DISTANCE_CONFIDENCE_MULTIPLIER == 2

(***************************************************************************)
(* Exact rational arithmetic (denominators are kept positive).             *)
(***************************************************************************)
Abs(x) == IF x < 0 THEN -x ELSE x

RECURSIVE Gcd(_, _)
Gcd(a, b) == IF b = 0 THEN a ELSE Gcd(b, a % b)

Rat(n, d) ==
  LET s == IF d < 0 THEN -1 ELSE 1
      g == Gcd(Abs(n), Abs(d))
  IN  [n |-> (s * n) \div g, d |-> (s * d) \div g]

RatInt(k) == [n |-> k, d |-> 1]

RatAdd(a, b) == Rat(a.n * b.d + b.n * a.d, a.d * b.d)

RatMul(a, b) == Rat(a.n * b.n, a.d * b.d)

RatLeq(a, b) == a.n * b.d <= b.n * a.d

RatMin(a, b) == IF RatLeq(a, b) THEN a ELSE b

RatMax(a, b) == IF RatLeq(a, b) THEN b ELSE a

(***************************************************************************)
(* Date helpers.                                                           *)
(***************************************************************************)
\* A period is a record [type, startHour, endHour, startMinute, endMinute];
\* type "missing" is an absent period, "prev_day" a named calendar period and
\* "time_session" a SessionSpec (the minutes are optional).
isSessionSpec(period) == period.type = "time_session"

validateSessionSpec(session) ==
  IF session.startHour < 0 \/ session.startHour > 23 THEN FALSE
  ELSE IF session.endHour < 0 \/ session.endHour > 23 THEN FALSE
  ELSE IF /\ OrDefault(session.startMinute, 0) # 0
          /\ (session.startMinute[1] < 0 \/ session.startMinute[1] > 59)
       THEN FALSE
  ELSE IF /\ OrDefault(session.endMinute, 0) # 0
          /\ (session.endMinute[1] < 0 \/ session.endMinute[1] > 59)
       THEN FALSE
  ELSE TRUE

\* The oldest count candles in place of the most recent ones.
getRecentKlinesOldest(klines, count) ==
  IF Len(klines) <= count THEN klines
  ELSE SubSeq(klines, 1, count)

\* klines.slice(-count), or a copy of klines when it has at most count items.
getRecentKlines(klines, count) ==
  IF Len(klines) <= count THEN klines
  ELSE SubSeq(klines, Len(klines) - count + 1, Len(klines))

(***************************************************************************)
(* CorrelationCrackStrategy: the synchronous methods.                      *)
(***************************************************************************)
\* validate without the upper limit on the number of assets.
validateNoUpperLimit(cfg) ==
  IF Len(cfg.primaryAssets) < MinPrimaryAssets THEN FALSE
  ELSE IF cfg.period.type = "missing" THEN FALSE
  ELSE IF cfg.direction \notin CrossDirection THEN FALSE
  ELSE IF isSessionSpec(cfg.period) THEN validateSessionSpec(cfg.period)
  ELSE TRUE

validate(cfg) ==
  IF Len(cfg.primaryAssets) < MinPrimaryAssets
       \/ Len(cfg.primaryAssets) > MaxPrimaryAssets THEN FALSE
  ELSE IF cfg.period.type = "missing" THEN FALSE
  ELSE IF cfg.direction \notin CrossDirection THEN FALSE
  ELSE IF isSessionSpec(cfg.period) THEN validateSessionSpec(cfg.period)
  ELSE TRUE

\* The loop with strict comparisons on the previous candle (< for <=, > for
\* >=).
RECURSIVE CrossLoopStrict(_, _, _, _)
CrossLoopStrict(recentKlines, referenceLevel, direction, i) ==
  IF i > Len(recentKlines) THEN [hasCrossed |-> FALSE, crossTime |-> Undefined]
  ELSE
    LET prevKline == recentKlines[i - 1]
        currentKline == recentKlines[i]
    IN  IF /\ direction = CROSS_OVER
           /\ prevKline.close < referenceLevel
           /\ currentKline.close > referenceLevel
        THEN [hasCrossed |-> TRUE, crossTime |-> Some(currentKline.openTime)]
        ELSE IF /\ direction = CROSS_UNDER
                /\ prevKline.close > referenceLevel
                /\ currentKline.close < referenceLevel
        THEN [hasCrossed |-> TRUE, crossTime |-> Some(currentKline.openTime)]
        ELSE CrossLoopStrict(recentKlines, referenceLevel, direction, i + 1)

\* The for loop of checkCrossCondition over recentKlines, from index i on
\* (1-based: i is the position of currentKline).
RECURSIVE CrossLoop(_, _, _, _)
CrossLoop(recentKlines, referenceLevel, direction, i) ==
  IF i > Len(recentKlines) THEN [hasCrossed |-> FALSE, crossTime |-> Undefined]
  ELSE
    LET prevKline == recentKlines[i - 1]
        currentKline == recentKlines[i]
    IN  IF /\ direction = CROSS_OVER
           /\ prevKline.close <= referenceLevel
           /\ currentKline.close > referenceLevel
        THEN [hasCrossed |-> TRUE, crossTime |-> Some(currentKline.openTime)]
        ELSE IF /\ direction = CROSS_UNDER
                /\ prevKline.close >= referenceLevel
                /\ currentKline.close < referenceLevel
        THEN [hasCrossed |-> TRUE, crossTime |-> Some(currentKline.openTime)]
        ELSE CrossLoop(recentKlines, referenceLevel, direction, i + 1)

checkCrossCondition(klines, referenceLevel, direction, lookbackPeriods) ==
  IF Len(klines) < 2 THEN [hasCrossed |-> FALSE, crossTime |-> Undefined]
  ELSE
    LET periodsToCheck ==
          OrDefault(lookbackPeriods, CROSS_DETECTION_LOOKBACK_PERIODS)
        recentKlines == getRecentKlines(klines, periodsToCheck)
    IN  CrossLoop(recentKlines, referenceLevel, direction, 2)

\* The predicates of conditions.filter(...), which is SelectSeq.
Crossed(c) == c.hasCrossed

NotCrossed(c) == ~c.hasCrossed

\* notCrossedAssets.reduce((sum, asset) => sum + distance, 0)
RECURSIVE SumDistance(_)
SumDistance(assets) ==
  IF assets = <<>> THEN RatInt(0)
  ELSE LET asset == assets[Len(assets)]
           distance == Rat(Abs(asset.currentPrice - asset.referenceLevel),
                           asset.referenceLevel)
       IN  RatAdd(SumDistance(SubSeq(assets, 1, Len(assets) - 1)), distance)

\* calculateConfidence counting every held asset in factor 1 (no "- 1").
calculateConfidenceEveryHeld(conds) ==
  LET notCrossedCount == Len(SelectSeq(conds, NotCrossed))
      factor1 == RatAdd(BASE_CONFIDENCE_SCORE,
                        RatMul(RatInt(notCrossedCount),
                               CONFIDENCE_INCREMENT_PER_ASSET))
      notCrossedAssets == SelectSeq(conds, NotCrossed)
      confidence ==
        IF Len(notCrossedAssets) > 0
        THEN LET avgDistance == RatMul(SumDistance(notCrossedAssets),
                                       Rat(1, Len(notCrossedAssets)))
             IN  RatAdd(factor1,
                        RatMin(RatMul(avgDistance,
                                      RatInt(DISTANCE_CONFIDENCE_MULTIPLIER)),
                               MAX_DISTANCE_CONFIDENCE_BOOST))
        ELSE factor1
  IN  RatMin(RatMax(confidence, RatInt(0)), RatInt(1))

calculateConfidence(conds) ==
  LET notCrossedCount == Len(SelectSeq(conds, NotCrossed))
      factor1 == RatAdd(BASE_CONFIDENCE_SCORE,
                        RatMul(RatInt(notCrossedCount - 1),
                               CONFIDENCE_INCREMENT_PER_ASSET))
      notCrossedAssets == SelectSeq(conds, NotCrossed)
      confidence ==
        IF Len(notCrossedAssets) > 0
        THEN LET avgDistance == RatMul(SumDistance(notCrossedAssets),
                                       Rat(1, Len(notCrossedAssets)))
             IN  RatAdd(factor1,
                        RatMin(RatMul(avgDistance,
                                      RatInt(DISTANCE_CONFIDENCE_MULTIPLIER)),
                               MAX_DISTANCE_CONFIDENCE_BOOST))
        ELSE factor1
  IN  RatMin(RatMax(confidence, RatInt(0)), RatInt(1))

\* Returns <<signal>> or <<>> (undefined).
analyzeCorrelationCrack(conds, cfg) ==
  LET crossedAssets == SelectSeq(conds, Crossed)
      notCrossedAssets == SelectSeq(conds, NotCrossed)
      minCorrelatedAssets ==
        OrDefault(cfg.minCorrelatedAssets, DefaultMinCorrelatedAssets)
  IN  IF Len(crossedAssets) = 1 /\ Len(notCrossedAssets) >= minCorrelatedAssets
      THEN LET triggerAsset == crossedAssets[1]
           IN  Some([direction |-> cfg.direction,
                     triggerAsset |-> triggerAsset.symbol,
                     correlatedAssets |->
                       [i \in 1..Len(notCrossedAssets) |->
                          notCrossedAssets[i].symbol],
                     referenceLevel |-> triggerAsset.referenceLevel,
                     confidence |-> calculateConfidence(conds)])
      ELSE Undefined

(***************************************************************************)
(* Maps (JavaScript Map): a sequence of [key, value] entries in insertion  *)
(* order; set on an existing key replaces the value in place.              *)
(***************************************************************************)
MapHas(m, k) == \E i \in 1..Len(m) : m[i].key = k

MapGet(m, k) == m[CHOOSE i \in 1..Len(m) : m[i].key = k].value

MapSet(m, k, v) ==
  IF MapHas(m, k)
  THEN [i \in 1..Len(m) |-> IF m[i].key = k THEN [key |-> k, value |-> v]
                            ELSE m[i]]
  ELSE Append(m, [key |-> k, value |-> v])

(***************************************************************************)
(* Inputs.                                                                 *)
(***************************************************************************)
\* Longest primaryAssets list that is tried (one beyond the accepted size).
MaxListLen == 5

SymbolOrder == <<"EURUSD", "GBPUSD", "USDJPY", "AUDUSD">>

Symbols == {SymbolOrder[i] : i \in 1..Len(SymbolOrder)}

SymbolRank(s) == CHOOSE i \in 1..Len(SymbolOrder) : SymbolOrder[i] = s

\* Symbols are interchangeable, so of the lists that differ only by a
\* renaming of symbols one is tried: the one whose symbols first occur in
\* SymbolOrder.  Repeated symbols are allowed (validate accepts them).
IsCanonical(a) ==
  \A i \in 1..Len(a) :
    \A r \in 1..(SymbolRank(a[i]) - 1) :
      \E j \in 1..(i - 1) : a[j] = SymbolOrder[r]

AssetLists ==
  UNION {{a \in [1..n -> Symbols] : IsCanonical(a)} : n \in 0..MaxListLen}

Kline(t, c) == [openTime |-> t, close |-> c]

\* Candle series the provider answers with (ascending openTime).
ProviderSeries ==
  { <<>>,
    <<Kline(1, 11), Kline(2, 9)>>,
    <<Kline(1, 7), Kline(2, 9)>> }

\* High/low results the indicator answers with.
IndicatorResults == { [high |-> 10, low |-> 8], [high |-> 8, low |-> 0] }

PrevDay ==
  [type |-> "prev_day", startHour |-> 0, endHour |-> 0,
   startMinute |-> Undefined, endMinute |-> Undefined]

MissingPeriod == [PrevDay EXCEPT !.type = "missing"]

LondonSession ==
  [type |-> "time_session", startHour |-> 3, endHour |-> 8,
   startMinute |-> Undefined, endMinute |-> Undefined]

HourValues == {-1, 0, 23, 24}

MinuteValues == {Some(-1), Some(0), Some(59), Some(60)}

\* The London session with one field replaced by a boundary value.
SessionSpecs ==
  {LondonSession}
    \cup {[LondonSession EXCEPT !.startHour = h] : h \in HourValues}
    \cup {[LondonSession EXCEPT !.endHour = h] : h \in HourValues}
    \cup {[LondonSession EXCEPT !.startMinute = m] : m \in MinuteValues}
    \cup {[LondonSession EXCEPT !.endMinute = m] : m \in MinuteValues}

Periods == {PrevDay, MissingPeriod} \cup SessionSpecs

Directions == CrossDirection \cup {"invalid"}

MinCorrelatedValues == {Some(0), Some(1), Some(2)}

LookbackValues == {Undefined, Some(1), Some(2)}

BaseConfig ==
  [primaryAssets |-> <<"EURUSD", "GBPUSD">>,
   period |-> PrevDay,
   direction |-> CROSS_UNDER,
   minCorrelatedAssets |-> Undefined,
   crossDetectionLookback |-> Undefined]

\* Lists an explicit minCorrelatedAssets is combined with (up to 3 entries).
ShortAssetLists == {a \in AssetLists : Len(a) < MaxPrimaryAssets}

\* Configurations passed to execute: every asset list with both directions
\* and the default threshold; every short list with both directions and
\* every explicit threshold; the base configuration with every period and
\* direction, and with every lookback.
Configs ==
  {[BaseConfig EXCEPT !.primaryAssets = a, !.direction = d] :
     a \in AssetLists, d \in CrossDirection}
    \cup {[BaseConfig EXCEPT !.primaryAssets = a, !.direction = d,
                             !.minCorrelatedAssets = m] :
            a \in ShortAssetLists, d \in CrossDirection,
            m \in MinCorrelatedValues}
    \cup {[BaseConfig EXCEPT !.period = p, !.direction = d] :
            p \in Periods, d \in Directions}
    \cup {[BaseConfig EXCEPT !.crossDetectionLookback = l, !.direction = d] :
            l \in LookbackValues, d \in CrossDirection}

(***************************************************************************)
(* State.                                                                  *)
(*   pc               where execute stands: "Idle", "Fetching" (awaiting   *)
(*                    getKlines), "Computing" (awaiting calculate),        *)
(*                    "Detecting" (awaiting checkCrossCondition), "Done"   *)
(*   config           the argument of the run                              *)
(*   idx              loop position: index into primaryAssets while        *)
(*                    fetching, into the entries of assetData afterwards   *)
(*   assetData, referenceLevels   the two Maps of the run                  *)
(*   conditions       the AssetCondition array                             *)
(*   result           <<>> or <<the StrategyResult returned>>              *)
(*   log              the calls made on the collaborators and their        *)
(*                    outcomes, in order (history)                         *)
(*   cc               a direct call of checkCrossCondition and its answer  *)
(***************************************************************************)
NoConfig == [BaseConfig EXCEPT !.primaryAssets = <<>>]

NoCall ==
  [called |-> FALSE, klines |-> <<>>, referenceLevel |-> 0,
   direction |-> "invalid", lookbackPeriods |-> Undefined,
   result |-> [hasCrossed |-> FALSE, crossTime |-> Undefined]]

(***************************************************************************)
(* Before a TokenBucketRateLimiter is constructed: the clock reads 0, no   *)
(* limiter exists and no caller is inside waitForLimit.                    *)
(*   now         what Date.now() returns (milliseconds)                    *)
(*   tokens      this.tokens, an exact rational                            *)
(*   lastRefill  this.lastRefill                                           *)
(*   rl          the limiter's readonly fields                             *)
(*   waiters     per caller: where its waitForLimit call stands            *)
(*   answer      what the last checkLimit / getRemainingRequests /         *)
(*               getResetTime call returned                                *)
(*   calls       how many waitForLimit calls were made (history)           *)
(***************************************************************************)
Callers == {"a", "b"}

NoLimiter ==
  [constructed |-> FALSE, maxTokens |-> 0, windowMs |-> 1000,
   waitInterval |-> 100]

\* iterations is the local of waitForLimit, ok the answer of the checkLimit
\* it awaits; slept counts the delays it sat through and warned records the
\* 'stuck in loop' warning (history).
NotWaiting ==
  [pc |-> "idle", iterations |-> 0, ok |-> FALSE, slept |-> 0,
   warned |-> FALSE]

NoAnswer == [op |-> "none", ok |-> FALSE, value |-> Undefined]

LimiterInit ==
  /\ now = 0
  /\ tokens = RatInt(0)
  /\ lastRefill = 0
  /\ rl = NoLimiter
  /\ waiters = [c \in Callers |-> NotWaiting]
  /\ answer = NoAnswer
  /\ calls = 0

(***************************************************************************)
(* Before a provider method is called.                                     *)
(*   request  the call under way: the provider and method, isInitialized,  *)
(*            where the call stands, the locals attempt and lastError of   *)
(*            retryOperation, the backoff timer and the outcome            *)
(*   trace    what the call did, in order (history)                        *)
(***************************************************************************)
NoOutcome == [status |-> "none", attempt |-> 0, origin |-> "none",
              wrapped |-> FALSE]

NoRequest ==
  [provider |-> "none", method |-> "none", isInitialized |-> FALSE,
   pc |-> "idle", attempt |-> 0, lastError |-> 0, delay |-> 0, waited |-> 0,
   outcome |-> NoOutcome]

ProviderInit ==
  /\ request = NoRequest
  /\ trace = <<>>

(***************************************************************************)
(* The providers after construction.  wsClient and sessionTokens are null  *)
(* or hold an object; headers tells whether CST and X-SECURITY-TOKEN are   *)
(* among the defaults of the http client; sockets counts the WebSockets    *)
(* created whose close event has not been delivered yet.                   *)
(***************************************************************************)
NoOperation ==
  [provider |-> "none", method |-> "none", pc |-> "idle",
   returned |-> "none", value |-> FALSE, venue |-> "none"]

LifecycleInit ==
  /\ binance = [isInitialized |-> FALSE]
  /\ capitalCom = [wsClient |-> "null", isConnected |-> FALSE,
                   sessionTokens |-> "null", headers |-> FALSE,
                   sockets |-> 0, opened |-> FALSE, timers |-> 0,
                   due |-> 0, pings |-> 0]
  /\ life = NoOperation
  /\ wire = <<>>
  /\ initialized = [p \in {"Binance", "CapitalCom"} |-> FALSE]

(***************************************************************************)
(* new InMemoryMarketDataCache(): an empty map and the sweeper timer set.  *)
(* An entry of the map is Undefined (no entry) or Some of a CacheItem.     *)
(***************************************************************************)
Keys == {"k1", "k2"}

Nothing == [k \in Keys |-> Undefined]

NotAsked == [op |-> "none", key |-> "none", value |-> Undefined]

CacheInit ==
  /\ cache = Nothing
  /\ cleanupInterval = [active |-> TRUE, armed |-> 0]
  /\ got = NotAsked
  /\ unswept = Nothing
  /\ lastSet = Nothing

(***************************************************************************)
(* No getMarketData call through the cache is under way.  cached is what   *)
(* cache.get answered, attempt the local of retryOperation.                *)
(***************************************************************************)
NoFetch ==
  [symbol |-> "none", pc |-> "idle", lazy |-> FALSE, cached |-> Undefined,
   attempt |-> 0, returned |-> "none", value |-> 0]

SnapshotInit ==
  /\ fetch = NoFetch
  /\ sent = <<>>

(***************************************************************************)
(* No calculate call has been made.                                        *)
(***************************************************************************)
NoCalculation ==
  [called |-> FALSE, data |-> <<>>, config |-> <<>>, clock |-> 0,
   outcome |-> [kind |-> "none"], filtered |-> <<>>]

NoMembership ==
  [asked |-> FALSE, date |-> 0, session |-> <<>>, timezone |-> Undefined,
   answer |-> FALSE]

NotAligned ==
  [asked |-> FALSE, timestamp |-> 0, interval |-> "none", openTime |-> 0,
   closeTime |-> 0]

\* The data requests in flight at once (the fan-out of a strategy run or of
\* calculateMultipleHighLow).
Requesters == {1, 2, 3}

NotRequested ==
  [isInitialized |-> FALSE, pc |-> [c \in Requesters |-> "idle"],
   disconnecting |-> FALSE, succeeded |-> 0]

IndicatorInit ==
  /\ indicator = NoCalculation
  /\ membership = NoMembership
  /\ aligned = NotAligned
  /\ lazy = NotRequested

Init ==
  /\ LimiterInit
  /\ ProviderInit
  /\ LifecycleInit
  /\ CacheInit
  /\ SnapshotInit
  /\ IndicatorInit
  /\ pc = "Idle"
  /\ config = NoConfig
  /\ idx = 0
  /\ assetData = <<>>
  /\ referenceLevels = <<>>
  /\ conditions = <<>>
  /\ result = <<>>
  /\ log = <<>>
  /\ cc = NoCall

ErrorResult(text, symbol) ==
  [success |-> FALSE,
   error |-> Some([text |-> text, symbol |-> symbol]),
   signal |-> Undefined,
   hasMetadata |-> FALSE,
   assetsAnalyzed |-> 0,
   assetConditions |-> <<>>,
   referenceLevels |-> <<>>]

SuccessResult(cfg, refs, conds, signal) ==
  [success |-> TRUE,
   error |-> Undefined,
   signal |-> signal,
   hasMetadata |-> TRUE,
   assetsAnalyzed |-> Len(cfg.primaryAssets),
   assetConditions |-> conds,
   referenceLevels |-> refs]

\* Log entries.
GetKlinesCall(symbol) == [op |-> "getKlines", symbol |-> symbol]

GetKlinesReturn(symbol, klines) ==
  [op |-> "klines", symbol |-> symbol, klines |-> klines]

GetKlinesThrow(symbol) == [op |-> "getKlinesFailed", symbol |-> symbol]

CalculateCall(symbol, klines) ==
  [op |-> "calculate", symbol |-> symbol, klines |-> klines]

CalculateReturn(symbol, hl) ==
  [op |-> "highLow", symbol |-> symbol, high |-> hl.high, low |-> hl.low]

CalculateThrow(symbol) == [op |-> "calculateFailed", symbol |-> symbol]

CheckCrossCall(symbol, klines, referenceLevel) ==
  [op |-> "checkCross", symbol |-> symbol, klines |-> klines,
   referenceLevel |-> referenceLevel]

CheckCrossReturn(symbol) == [op |-> "cross", symbol |-> symbol]

NoReferenceThrow(symbol) == [op |-> "noReferenceLevel", symbol |-> symbol]

(***************************************************************************)
(* execute, segment by segment.                                            *)
(***************************************************************************)
\* The AssetCondition pushed by checkAllAssetConditions for one entry.
AssetCondition(symbol, klines, referenceLevel, cfg) ==
  LET currentPrice == IF Len(klines) = 0 THEN 0 ELSE klines[Len(klines)].close
      crossResult ==
        checkCrossCondition(
          klines, referenceLevel, cfg.direction,
          Some(OrDefault(cfg.crossDetectionLookback,
                         CROSS_DETECTION_LOOKBACK_PERIODS)))
  IN  [symbol |-> symbol,
       hasCrossed |-> crossResult.hasCrossed,
       currentPrice |-> currentPrice,
       referenceLevel |-> referenceLevel,
       crossDirection |->
         IF crossResult.hasCrossed THEN Some(cfg.direction) ELSE Undefined,
       crossTime |-> crossResult.crossTime]

\* checkAllAssetConditions skipping an entry without reference level (continue
\* for throw).
RECURSIVE CheckFromSkipMissing(_, _, _, _, _, _)
CheckFromSkipMissing(i, data, refs, conds, lg, cfg) ==
  IF i > Len(data)
  THEN [pc |-> "Done", idx |-> i, log |-> lg,
        result |-> Some(SuccessResult(cfg, refs, conds,
                                      analyzeCorrelationCrack(conds, cfg)))]
  ELSE
    LET symbol == data[i].key
        referenceLevel == MapGet(refs, symbol)
    IN  IF OrDefault(Some(referenceLevel), 0) = 0
        THEN CheckFromSkipMissing(i + 1, data, refs, conds, lg, cfg)
        ELSE [pc |-> "Detecting", idx |-> i,
              log |-> Append(lg, CheckCrossCall(symbol, data[i].value,
                                                referenceLevel)),
              result |-> Undefined]

\* checkAllAssetConditions from the top of its loop at entry i up to the
\* next await: the loop is over (execute analyses and returns), the entry
\* has no reference level (throw, caught by execute), or checkCrossCondition
\* is called.  Gives the next values of pc, idx, result and log.
CheckFrom(i, data, refs, conds, lg, cfg) ==
  IF i > Len(data)
  THEN [pc |-> "Done", idx |-> i, log |-> lg,
        result |-> Some(SuccessResult(cfg, refs, conds,
                                      analyzeCorrelationCrack(conds, cfg)))]
  ELSE
    LET symbol == data[i].key
        referenceLevel == MapGet(refs, symbol)
    IN  IF OrDefault(Some(referenceLevel), 0) = 0
        THEN [pc |-> "Done", idx |-> i,
              log |-> Append(lg, NoReferenceThrow(symbol)),
              result |-> Some(ErrorResult("No reference level found for",
                                          symbol))]
        ELSE [pc |-> "Detecting", idx |-> i,
              log |-> Append(lg, CheckCrossCall(symbol, data[i].value,
                                                referenceLevel)),
              result |-> Undefined]

\* execute is called: validate, and on success fetchAssetData up to its
\* first await of getKlines.  The strategy keeps no state between runs, so
\* one run is followed from the call to the return.
Execute(cfg) ==
  /\ pc = "Idle"
  /\ config' = cfg
  /\ assetData' = <<>>
  /\ referenceLevels' = <<>>
  /\ conditions' = <<>>
  /\ IF ~validate(cfg)
     THEN /\ pc' = "Done"
          /\ idx' = 0
          /\ result' = Some(ErrorResult("Invalid configuration", ""))
          /\ log' = <<>>
     ELSE /\ pc' = "Fetching"
          /\ idx' = 1
          /\ result' = Undefined
          /\ log' = <<GetKlinesCall(cfg.primaryAssets[1])>>
  /\ UNCHANGED <<cc, accessVars>>

\* getKlines resolves: store the series, then either call getKlines for the
\* next symbol or leave fetchAssetData and enter calculateReferenceLevels up
\* to its first await of calculate.
GetKlinesResolved(klines) ==
  /\ pc = "Fetching"
  /\ LET symbols == config.primaryAssets
         symbol == symbols[idx]
         data == MapSet(assetData, symbol, klines)
         lg == Append(log, GetKlinesReturn(symbol, klines))
     IN  /\ assetData' = data
         /\ IF idx < Len(symbols)
            THEN /\ idx' = idx + 1
                 /\ pc' = "Fetching"
                 /\ log' = Append(lg, GetKlinesCall(symbols[idx + 1]))
            ELSE /\ idx' = 1
                 /\ pc' = "Computing"
                 /\ log' = Append(lg, CalculateCall(data[1].key, data[1].value))
  /\ UNCHANGED <<config, referenceLevels, conditions, result, cc,
                 accessVars>>

\* getKlines rejects and fetchAssetData swallows the error, going on with the
\* next symbol when there is one.
GetKlinesRejectedContinue ==
  /\ pc = "Fetching"
  /\ LET symbols == config.primaryAssets
         symbol == symbols[idx]
         lg == Append(log, GetKlinesThrow(symbol))
     IN  IF idx < Len(symbols)
         THEN /\ idx' = idx + 1
              /\ pc' = "Fetching"
              /\ result' = result
              /\ log' = Append(lg, GetKlinesCall(symbols[idx + 1]))
         ELSE /\ idx' = idx
              /\ pc' = "Done"
              /\ result' = Some(ErrorResult("Failed to fetch market data for",
                                            symbol))
              /\ log' = lg
  /\ UNCHANGED <<config, assetData, referenceLevels, conditions, cc,
                 accessVars>>

\* getKlines rejects: fetchAssetData rethrows, execute catches and returns.
GetKlinesRejected ==
  /\ pc = "Fetching"
  /\ LET symbol == config.primaryAssets[idx]
     IN  /\ result' = Some(ErrorResult("Failed to fetch market data for",
                                       symbol))
         /\ log' = Append(log, GetKlinesThrow(symbol))
  /\ pc' = "Done"
  /\ UNCHANGED <<config, idx, assetData, referenceLevels, conditions, cc,
                 accessVars>>

\* The selection the wrong way round: low for cross-under, high for cross-over.
ReferenceLevelSwapped(direction, hl) ==
  IF direction = CROSS_UNDER THEN hl.low ELSE hl.high

\* Use high for cross-under (HLS) and low for cross-over (LLS).
ReferenceLevelOf(direction, hl) ==
  IF direction = CROSS_UNDER THEN hl.high ELSE hl.low

\* calculate resolves: store the reference level, then either call calculate
\* for the next entry or enter checkAllAssetConditions.
CalculateResolved(hl) ==
  /\ pc = "Computing"
  /\ LET symbol == assetData[idx].key
         referenceLevel == ReferenceLevelOf(config.direction, hl)
         refs == MapSet(referenceLevels, symbol, referenceLevel)
         lg == Append(log, CalculateReturn(symbol, hl))
     IN  /\ referenceLevels' = refs
         /\ IF idx < Len(assetData)
            THEN /\ idx' = idx + 1
                 /\ pc' = "Computing"
                 /\ result' = result
                 /\ log' = Append(lg, CalculateCall(assetData[idx + 1].key,
                                                    assetData[idx + 1].value))
            ELSE LET next == CheckFrom(1, assetData, refs, <<>>, lg, config)
                 IN  /\ idx' = next.idx
                     /\ pc' = next.pc
                     /\ result' = next.result
                     /\ log' = next.log
  /\ UNCHANGED <<config, assetData, conditions, cc, accessVars>>

\* calculate rejects: calculateReferenceLevels rethrows, execute catches.
CalculateRejected ==
  /\ pc = "Computing"
  /\ LET symbol == assetData[idx].key
     IN  /\ result' = Some(ErrorResult("Failed to calculate reference level for",
                                       symbol))
         /\ log' = Append(log, CalculateThrow(symbol))
  /\ pc' = "Done"
  /\ UNCHANGED <<config, idx, assetData, referenceLevels, conditions, cc,
                 accessVars>>

\* checkCrossCondition resolves: push the condition, then go on with the
\* next entry, or analyse the pattern and return the result.
CheckCrossResolved ==
  /\ pc = "Detecting"
  /\ LET symbol == assetData[idx].key
         klines == assetData[idx].value
         condition == AssetCondition(symbol, klines,
                                     MapGet(referenceLevels, symbol), config)
         conds == Append(conditions, condition)
         next == CheckFrom(idx + 1, assetData, referenceLevels, conds,
                           Append(log, CheckCrossReturn(symbol)), config)
     IN  /\ conditions' = conds
         /\ idx' = next.idx
         /\ pc' = next.pc
         /\ result' = next.result
         /\ log' = next.log
  /\ UNCHANGED <<config, assetData, referenceLevels, cc, accessVars>>

ExecuteAny == \E cfg \in Configs : Execute(cfg)

GetKlinesResolvedAny == \E klines \in ProviderSeries : GetKlinesResolved(klines)

CalculateResolvedAny == \E hl \in IndicatorResults : CalculateResolved(hl)

Next ==
  \/ ExecuteAny
  \/ GetKlinesResolvedAny
  \/ GetKlinesRejected
  \/ CalculateResolvedAny
  \/ CalculateRejected
  \/ CheckCrossResolved

Spec == Init /\ [][Next]_vars

(***************************************************************************)
(* checkCrossCondition called directly (it is a public method).            *)
(***************************************************************************)
\* Longest candle series passed to a direct call.
MaxKlines == 3

Closes == {1, 2, 3}

CrossReferenceLevels == {2}

\* Series in ascending openTime order; openTime is the position.
ShortKlineSeries ==
  UNION {{[i \in 1..n |-> Kline(i, c[i])] : c \in [1..n -> Closes]} :
           n \in 0..MaxKlines}

\* Series longer than the default lookback by two candles, which rise
\* through the level once at the second candle, fall through it once at the
\* second, or swing across it at every candle.
LongKlineCount == CROSS_DETECTION_LOOKBACK_PERIODS + 2

LongKlineSeries ==
  { [i \in 1..LongKlineCount |-> Kline(i, IF i = 1 THEN 1 ELSE 3)],
    [i \in 1..LongKlineCount |-> Kline(i, IF i = 1 THEN 3 ELSE 1)],
    [i \in 1..LongKlineCount |-> Kline(i, IF i % 2 = 1 THEN 1 ELSE 3)] }

KlineSeries == ShortKlineSeries \cup LongKlineSeries

DirectLookbackValues ==
  {Undefined, Some(0), Some(1), Some(2), Some(3), Some(5)}

CheckCross(klines, referenceLevel, direction, lookbackPeriods) ==
  /\ ~cc.called
  /\ cc' = [called |-> TRUE, klines |-> klines,
            referenceLevel |-> referenceLevel, direction |-> direction,
            lookbackPeriods |-> lookbackPeriods,
            result |-> checkCrossCondition(klines, referenceLevel, direction,
                                           lookbackPeriods)]
  /\ UNCHANGED <<pc, config, idx, assetData, referenceLevels, conditions,
                 result, log, accessVars>>

CheckCrossAny ==
  \E klines \in KlineSeries, referenceLevel \in CrossReferenceLevels,
     direction \in Directions, lookbackPeriods \in DirectLookbackValues :
    CheckCross(klines, referenceLevel, direction, lookbackPeriods)

CrossNext == CheckCrossAny

CrossSpec == Init /\ [][CrossNext]_vars

(***************************************************************************)
(* Properties of a strategy run (checked under Spec).                      *)
(***************************************************************************)
Returned == result # <<>>

Outcome == result[1]

HasSignal == Returned /\ Outcome.signal # <<>>

Signal == Outcome.signal[1]

CrossedIdx(conds) == {i \in 1..Len(conds) : conds[i].hasCrossed}

HeldIdx(conds) == {i \in 1..Len(conds) : ~conds[i].hasCrossed}

\* The symbols of the held conditions, in the order of the conditions.
HeldList(conds) ==
  LET H == HeldIdx(conds)
  IN  [k \in 1..Cardinality(H) |->
         conds[CHOOSE i \in H : Cardinality({j \in H : j <= i}) = k].symbol]

SymbolsOf(conds, I) == {conds[i].symbol : i \in I}

\* Whether the signal of the outcome is the one the pattern rule prescribes
\* for threshold min: present iff exactly one crossed and at least min held,
\* triggered by the crossed asset, correlated with the held list.
SignalMatchesRule(min) ==
  LET conds == Outcome.assetConditions
      crossed == CrossedIdx(conds)
      fires == Cardinality(crossed) = 1 /\ Cardinality(HeldIdx(conds)) >= min
  IN  /\ HasSignal <=> fires
      /\ HasSignal =>
           /\ Signal.triggerAsset = conds[CHOOSE i \in crossed : TRUE].symbol
           /\ Signal.correlatedAssets = HeldList(conds)

\* C1 as stated: a successful run attaches a signal iff exactly one asset has
\* crossed and the number of held assets is at least minCorrelatedAssets (1
\* when the field is omitted); the trigger is the crossed asset and
\* correlatedAssets is the held list.
C1_SignalIffStatedThreshold ==
  (Returned /\ Outcome.success) =>
    SignalMatchesRule(IF config.minCorrelatedAssets = Undefined THEN 1
                      ELSE config.minCorrelatedAssets[1])

\* C2 as stated: in every successful run the crossed and held assets are
\* disjoint, together they are the configured assets, and there are as many
\* conditions as entries in primaryAssets.
C2_ConditionsPartitionAssets ==
  (Returned /\ Outcome.success) =>
    LET conds == Outcome.assetConditions
        crossed == SymbolsOf(conds, CrossedIdx(conds))
        held == SymbolsOf(conds, HeldIdx(conds))
    IN  /\ crossed \cap held = {}
        /\ crossed \cup held =
             {config.primaryAssets[i] : i \in 1..Len(config.primaryAssets)}
        /\ Len(conds) = Len(config.primaryAssets)

FailureOps == {"getKlinesFailed", "calculateFailed", "noReferenceLevel"}

LogIdx(ops) == {i \in 1..Len(log) : log[i].op \in ops}

\* C3: execute never rejects and never produces a partial signal: a failed
\* candle fetch, reference-level calculation or cross check gives a result
\* with success = false, a non-empty error message naming the failing symbol
\* and no signal; a signal comes only with success = true and a condition for
\* every configured asset.
C3_FailureGivesErrorResult ==
  /\ pc = "Done" => Returned
  /\ \A i \in LogIdx(FailureOps) :
       /\ Returned
       /\ ~Outcome.success
       /\ Outcome.error # Undefined
       /\ Outcome.error[1].text # ""
       /\ Outcome.error[1].symbol = log[i].symbol
       /\ Outcome.signal = Undefined
  /\ HasSignal =>
       /\ Outcome.success
       /\ \A k \in 1..Len(config.primaryAssets) :
            \E c \in 1..Len(Outcome.assetConditions) :
              Outcome.assetConditions[c].symbol = config.primaryAssets[k]

\* A run that fails at the cross check of its third asset, after one asset
\* has crossed and one has held.
C3_Witness ==
  /\ Returned
  /\ ~Outcome.success
  /\ log # <<>>
  /\ log[Len(log)].op = "noReferenceLevel"
  /\ \E i, j \in 1..Len(conditions) :
       conditions[i].hasCrossed /\ ~conditions[j].hasCrossed

\* The configurations that fail validation: primaryAssets size outside [2,4],
\* period missing, direction not an enum member, or a session period with
\* hours or minutes out of range.
FailsValidation(cfg) ==
  \/ Len(cfg.primaryAssets) \notin 2..4
  \/ cfg.period.type = "missing"
  \/ cfg.direction \notin {"cross_over", "cross_under"}
  \/ /\ cfg.period.type = "time_session"
     /\ \/ cfg.period.startHour \notin 0..23
        \/ cfg.period.endHour \notin 0..23
        \/ \E m \in {cfg.period.startMinute, cfg.period.endMinute} :
             m # Undefined /\ m[1] \notin 0..59

\* C4: when the configuration fails validation, execute returns success =
\* false with error exactly "Invalid configuration" and performs no provider
\* call and no indicator calculation.
C4_InvalidConfigurationNoCalls ==
  (pc # "Idle" /\ FailsValidation(config)) =>
    /\ pc = "Done"
    /\ Returned
    /\ ~Outcome.success
    /\ Outcome.error = Some([text |-> "Invalid configuration", symbol |-> ""])
    /\ Outcome.signal = Undefined
    /\ log = <<>>

\* A run rejected for a session period whose end minute is 60.
C4_Witness ==
  /\ pc = "Done"
  /\ config.period.type = "time_session"
  /\ config.period.endMinute = Some(60)
  /\ Returned
  /\ ~Outcome.success

StageRank(op) ==
  IF op \in {"getKlines", "klines", "getKlinesFailed"} THEN 1
  ELSE IF op \in {"calculate", "highLow", "calculateFailed"} THEN 2
  ELSE 3

\* C5: a run goes through validating, fetching, computing, detecting and
\* deciding in this order: all candle fetches complete before the first
\* reference-level calculation starts, all reference levels are computed
\* before the first cross check, the decision is taken after all cross
\* checks, and a failure ends the run at once, with no later fetch,
\* calculation or cross check.
C5_StageOrder ==
  /\ log # <<>> => ~FailsValidation(config)
  /\ \A i, j \in 1..Len(log) :
       i < j => StageRank(log[i].op) <= StageRank(log[j].op)
  /\ \A i \in LogIdx({"calculate"}) :
       /\ Cardinality({j \in LogIdx({"klines"}) : j < i})
            = Len(config.primaryAssets)
       /\ Cardinality({j \in LogIdx({"getKlines"}) : j < i})
            = Len(config.primaryAssets)
  /\ \A i \in LogIdx({"checkCross"}) :
       /\ Cardinality({j \in LogIdx({"highLow"}) : j < i}) = Len(assetData)
       /\ Cardinality({j \in LogIdx({"calculate"}) : j < i}) = Len(assetData)
  /\ (Returned /\ Outcome.success) =>
       /\ Cardinality(LogIdx({"cross"})) = Len(assetData)
       /\ Cardinality(LogIdx({"checkCross"})) = Len(assetData)
       /\ log[Len(log)].op = "cross"
  /\ \A i \in LogIdx(FailureOps) :
       i = Len(log) /\ pc = "Done" /\ Returned /\ ~Outcome.success

\* A run of three assets that fails at the second reference-level
\* calculation.
C5_Witness ==
  /\ pc = "Done"
  /\ Len(assetData) = 3
  /\ log # <<>>
  /\ log[Len(log)].op = "calculateFailed"
  /\ Cardinality(LogIdx({"highLow"})) = 1

FetchCalls == LogIdx({"getKlines"})

FetchEnds == LogIdx({"klines", "getKlinesFailed"})

\* C6 as stated: the candle fetches of a run are issued concurrently: once a
\* run has started two fetches, some fetch was started while an earlier one
\* had not completed yet.
C6_FetchesOverlap ==
  Cardinality(FetchCalls) >= 2 =>
    \E i \in FetchCalls :
      Cardinality({j \in FetchCalls : j < i})
        > Cardinality({j \in FetchEnds : j < i})

\* C7 as stated: in a run that has fetched all its data, each configured
\* asset's series was fetched exactly once (as many getKlines calls as
\* entries in primaryAssets), and every series given to the indicator or to
\* the cross detector for an asset is the series fetched for that asset.
C7_EachAssetFetchedOnce ==
  (pc \in {"Computing", "Detecting"} \/ (Returned /\ Outcome.success)) =>
    /\ Cardinality(FetchCalls) = Len(config.primaryAssets)
    /\ \A k \in 1..Len(config.primaryAssets) :
         Cardinality({i \in FetchCalls :
                        log[i].symbol = config.primaryAssets[k]}) = 1
    /\ \A i \in LogIdx({"calculate", "checkCross"}) :
         \E j \in LogIdx({"klines"}) :
           log[j].symbol = log[i].symbol /\ log[j].klines = log[i].klines

\* C8: the reference level of an asset is the indicator's high for
\* CROSS_UNDER and its low for CROSS_OVER, and the referenceLevel of a signal
\* is the reference level of its trigger asset.
C8_ReferenceLevelSelection ==
  /\ \A i \in LogIdx({"highLow"}) :
       /\ MapHas(referenceLevels, log[i].symbol)
       /\ MapGet(referenceLevels, log[i].symbol) =
            IF config.direction = "cross_under" THEN log[i].high
            ELSE log[i].low
  /\ \A c \in 1..Len(conditions) :
       conditions[c].referenceLevel =
         MapGet(referenceLevels, conditions[c].symbol)
  /\ HasSignal =>
       /\ Outcome.assetConditions = conditions
       /\ Outcome.referenceLevels = referenceLevels
       /\ \E c \in 1..Len(conditions) :
            /\ conditions[c].symbol = Signal.triggerAsset
            /\ conditions[c].hasCrossed
       /\ Signal.referenceLevel =
            MapGet(referenceLevels, Signal.triggerAsset)

\* A cross-under signal whose trigger has another reference level than a
\* held asset.
C8_Witness ==
  /\ HasSignal
  /\ config.direction = CROSS_UNDER
  /\ \E c \in 1..Len(conditions) :
       /\ ~conditions[c].hasCrossed
       /\ conditions[c].referenceLevel # Signal.referenceLevel

RECURSIVE ProductOfLevels(_, _)
ProductOfLevels(conds, I) ==
  IF I = {} THEN 1
  ELSE LET i == CHOOSE x \in I : TRUE
       IN  conds[i].referenceLevel * ProductOfLevels(conds, I \ {i})

\* Sum over i in I of |price - level| * (product of the levels of H \ {i}):
\* the numerator of the summed distances over the common denominator.
RECURSIVE DistanceNumerator(_, _, _)
DistanceNumerator(conds, H, I) ==
  IF I = {} THEN 0
  ELSE LET i == CHOOSE x \in I : TRUE
       IN  Abs(conds[i].currentPrice - conds[i].referenceLevel)
             * ProductOfLevels(conds, H \ {i})
           + DistanceNumerator(conds, H, I \ {i})

Least(a, b) == IF a <= b THEN a ELSE b

Greatest(a, b) == IF a >= b THEN a ELSE b

\* C9: the confidence of a signal is 0.5 + (|held| - 1) * 0.1 +
\* min(averageDistance * 2, 0.3) clamped to [0, 1], averageDistance being the
\* mean over the held assets of |currentPrice - referenceLevel| /
\* referenceLevel; it lies in [0, 1] for 1 to 3 held assets.  (Stated over
\* the common denominator 10 * k * D, D the product of the held levels.)
C9_ConfidenceFormula ==
  HasSignal =>
    LET conds == Outcome.assetConditions
        H == HeldIdx(conds)
        k == Cardinality(H)
        D == ProductOfLevels(conds, H)
        N == DistanceNumerator(conds, H, H)
        raw == 5 * k * D + (k - 1) * k * D + Least(20 * N, 3 * k * D)
        clamped == Greatest(0, Least(raw, 10 * k * D))
        c == Signal.confidence
    IN  /\ k \in 1..3
        /\ D > 0
        /\ c.d > 0
        /\ c.n * (10 * k * D) = c.d * clamped
        /\ 0 <= c.n
        /\ c.n <= c.d

\* A signal with three held assets, each 10% away from its level: 0.9.
C9_Witness ==
  /\ HasSignal
  /\ Cardinality(HeldIdx(Outcome.assetConditions)) = 3
  /\ Signal.confidence = [n |-> 9, d |-> 10]

(***************************************************************************)
(* Properties of checkCrossCondition (checked under CrossSpec).            *)
(***************************************************************************)
PairCrosses(direction, prevClose, currClose, ref) ==
  \/ direction = "cross_over" /\ prevClose <= ref /\ currClose > ref
  \/ direction = "cross_under" /\ prevClose >= ref /\ currClose < ref

\* Positions of the current candle of the adjacent pairs that lie within the
\* most recent candles examined (an omitted lookback is 10).
ExaminedPairs(klines, lookbackPeriods) ==
  LET lookback == IF lookbackPeriods \in {Undefined, Some(0)} THEN 10
                  ELSE lookbackPeriods[1]
  IN  {i \in 2..Len(klines) : i - 1 >= Len(klines) - lookback + 1}

\* C10: checkCrossCondition reports a crossing exactly when an examined
\* adjacent pair (prev, curr) has prev.close <= ref and curr.close > ref for
\* CROSS_OVER, or prev.close >= ref and curr.close < ref for CROSS_UNDER;
\* with fewer than 2 candles it reports none; crossTime is curr.openTime.
C10_CrossExactlyWhenPairCrosses ==
  cc.called =>
    LET crossing ==
          {i \in ExaminedPairs(cc.klines, cc.lookbackPeriods) :
             PairCrosses(cc.direction, cc.klines[i - 1].close,
                         cc.klines[i].close, cc.referenceLevel)}
    IN  /\ cc.result.hasCrossed <=> crossing # {}
        /\ Len(cc.klines) < 2 => ~cc.result.hasCrossed
        /\ cc.result.hasCrossed =>
             \E i \in crossing :
               cc.result.crossTime = Some(cc.klines[i].openTime)
        /\ ~cc.result.hasCrossed => cc.result.crossTime = Undefined

\* Two candles, the previous close on the level and the current one below
\* it: a cross-under is reported.
C10_Witness ==
  /\ cc.called
  /\ cc.direction = CROSS_UNDER
  /\ Len(cc.klines) = 2
  /\ cc.klines[1].close = cc.referenceLevel
  /\ cc.klines[2].close < cc.referenceLevel
  /\ cc.result.hasCrossed
  /\ cc.result.crossTime = Some(cc.klines[2].openTime)

(***************************************************************************)
(* TokenBucketRateLimiter.                                                 *)
(*                                                                         *)
(* checkLimit and waitForLimit are async functions.  A call of checkLimit  *)
(* runs its whole body (the refill and the comparison) at the call and     *)
(* hands back a resolved promise; the caller that awaits it continues in a *)
(* later microtask, so other callers' segments run in between.  delay      *)
(* resolves when its timer fires; the timer is not tied to Date.now(),     *)
(* which the environment may move forwards or backwards.                   *)
(***************************************************************************)
\* The poll count after which waitForLimit gives up waiting.
MaxIterations == 100

DEFAULT_REQUESTS_PER_MINUTE == 1200

MINUTE == 60000

DEFAULT_WAIT_INTERVAL == 100

RatSub(a, b) == Rat(a.n * b.d - b.n * a.d, a.d * b.d)

RatDiv(a, b) == Rat(a.n * b.d, a.d * b.n)

RatFloor(a) == a.n \div a.d

\* Tokens per second.
refillRate(r) == Rat(r.maxTokens * 1000, r.windowMs)

\* refillTokens without the Math.min that caps the bucket.
refillTokensUncapped(t, last, clock, r) ==
  LET timePassed == clock - last
      tokensToAdd == RatMul(Rat(timePassed, 1000), refillRate(r))
  IN  IF timePassed > 0
      THEN [tokens |-> RatAdd(t, tokensToAdd), lastRefill |-> clock]
      ELSE IF timePassed < 0
           THEN [tokens |-> t, lastRefill |-> clock]
           ELSE [tokens |-> t, lastRefill |-> last]

\* refillTokens without the branch for a clock that went backwards.
refillTokensIgnoringRegression(t, last, clock, r) ==
  LET timePassed == clock - last
      tokensToAdd == RatMul(Rat(timePassed, 1000), refillRate(r))
  IN  IF timePassed > 0
      THEN [tokens |-> RatMin(RatInt(r.maxTokens), RatAdd(t, tokensToAdd)),
            lastRefill |-> clock]
      ELSE [tokens |-> t, lastRefill |-> last]

\* refillTokens when Date.now() returns clock: the new tokens and lastRefill.
refillTokens(t, last, clock, r) ==
  LET timePassed == clock - last
      tokensToAdd == RatMul(Rat(timePassed, 1000), refillRate(r))
  IN  IF timePassed > 0
      THEN [tokens |-> RatMin(RatInt(r.maxTokens), RatAdd(t, tokensToAdd)),
            lastRefill |-> clock]
      ELSE IF timePassed < 0
           THEN [tokens |-> t, lastRefill |-> clock]
           ELSE [tokens |-> t, lastRefill |-> last]

\* this.tokens >= 1
\* this.tokens > 0 in place of this.tokens >= 1.
HasTokenFraction(t) == ~RatLeq(t, RatInt(0))

HasToken(t) == RatLeq(RatInt(1), t)

\* this.tokens - 1 without the Math.max.
ConsumeUnclamped(t) == RatSub(t, RatInt(1))

\* Math.max(0, this.tokens - 1)
Consume(t) == RatMax(RatInt(0), RatSub(t, RatInt(1)))

\* iterations >= 100 in place of iterations > 100.
GivesUpEarly(iterations) == iterations >= MaxIterations

\* iterations > 100
GivesUp(iterations) == iterations > MaxIterations

Refilled == refillTokens(tokens, lastRefill, now, rl)

(***************************************************************************)
(* Inputs of the limiter model.                                            *)
(***************************************************************************)
\* The clock reads a multiple of 500 ms no later than MaxNow * 500.
MaxNow == 2

ClockReadings == {k * 500 : k \in 0..MaxNow}

\* waitForLimit calls followed from one construction.
MaxCalls == 2

\* new TokenBucketRateLimiter(maxRequests, windowMs); the last is the
\* default configuration.
LimiterConfigs ==
  {[constructed |-> TRUE, maxTokens |-> m, windowMs |-> 1000,
    waitInterval |-> DEFAULT_WAIT_INTERVAL] : m \in {0, 1}}
  \cup {[constructed |-> TRUE, maxTokens |-> DEFAULT_REQUESTS_PER_MINUTE,
         windowMs |-> MINUTE, waitInterval |-> DEFAULT_WAIT_INTERVAL]}

\* The caller of the runs in which the calls follow one another.
SoleCaller == "a"

(***************************************************************************)
(* Actions of the limiter.                                                 *)
(***************************************************************************)
\* The environment moves the clock to another reading, later or earlier.
Tick(t) ==
  /\ t # now
  /\ now' = t
  /\ UNCHANGED <<tokens, lastRefill, rl, waiters, answer, calls,
                 outsideLimiter>>

Construct(cfg) ==
  /\ ~rl.constructed
  /\ rl' = cfg
  /\ tokens' = RatInt(cfg.maxTokens)
  /\ lastRefill' = now
  /\ UNCHANGED <<now, waiters, answer, calls, outsideLimiter>>

CheckLimit ==
  /\ rl.constructed
  /\ tokens' = Refilled.tokens
  /\ lastRefill' = Refilled.lastRefill
  /\ answer' = [op |-> "checkLimit", ok |-> HasToken(Refilled.tokens),
                value |-> Undefined]
  /\ UNCHANGED <<now, rl, waiters, calls, outsideLimiter>>

\* getRemainingRequests taking a token as waitForLimit does.
GetRemainingRequestsConsuming ==
  /\ rl.constructed
  /\ tokens' = Consume(Refilled.tokens)
  /\ lastRefill' = Refilled.lastRefill
  /\ answer' = [op |-> "getRemainingRequests", ok |-> FALSE,
                value |-> Some(RatFloor(Refilled.tokens))]
  /\ UNCHANGED <<now, rl, waiters, calls, outsideLimiter>>

GetRemainingRequests ==
  /\ rl.constructed
  /\ tokens' = Refilled.tokens
  /\ lastRefill' = Refilled.lastRefill
  /\ answer' = [op |-> "getRemainingRequests", ok |-> FALSE,
                value |-> Some(RatFloor(Refilled.tokens))]
  /\ UNCHANGED <<now, rl, waiters, calls, outsideLimiter>>

\* (maxTokens - tokens) / refillRate * 1000 is NaN when refillRate is 0, and
\* the Date built from it is invalid (no value).
GetResetTime ==
  /\ rl.constructed
  /\ tokens' = Refilled.tokens
  /\ lastRefill' = Refilled.lastRefill
  /\ LET missing == RatSub(RatInt(rl.maxTokens), Refilled.tokens)
         rate == refillRate(rl)
     IN  answer' =
           [op |-> "getResetTime", ok |-> FALSE,
            value |-> IF rate.n = 0
                      THEN Undefined
                      ELSE Some(now + RatFloor(RatMul(RatDiv(missing, rate),
                                                      RatInt(1000))))]
  /\ UNCHANGED <<now, rl, waiters, calls, outsideLimiter>>

\* waitForLimit is called: iterations = 0 and the first checkLimit().
WaitForLimit(c) ==
  /\ rl.constructed
  /\ waiters[c].pc \in {"idle", "returned"}
  /\ calls < MaxCalls
  /\ tokens' = Refilled.tokens
  /\ lastRefill' = Refilled.lastRefill
  /\ waiters' = [waiters EXCEPT ![c] =
                   [pc |-> "awaitingCheck", iterations |-> 0,
                    ok |-> HasToken(Refilled.tokens), slept |-> 0,
                    warned |-> FALSE]]
  /\ calls' = calls + 1
  /\ UNCHANGED <<now, rl, answer, outsideLimiter>>

\* The awaited checkLimit() has resolved: leave the loop and consume, or
\* count the poll and either give up waiting and consume, or sleep.
CheckLimitResolved(c) ==
  /\ waiters[c].pc = "awaitingCheck"
  /\ LET w == waiters[c]
         iterations == w.iterations + 1
     IN  IF w.ok
         THEN /\ tokens' = Consume(tokens)
              /\ waiters' = [waiters EXCEPT ![c].pc = "returned"]
         ELSE IF GivesUp(iterations)
              THEN /\ tokens' = Consume(tokens)
                   /\ waiters' = [waiters EXCEPT
                                    ![c].pc = "returned",
                                    ![c].iterations = iterations,
                                    ![c].warned = TRUE]
              ELSE /\ waiters' = [waiters EXCEPT
                                    ![c].pc = "delaying",
                                    ![c].iterations = iterations]
                   /\ UNCHANGED tokens
  /\ UNCHANGED <<now, lastRefill, rl, answer, calls, outsideLimiter>>

\* The timer of delay(waitInterval) fires: the loop calls checkLimit() again.
DelayElapsed(c) ==
  /\ waiters[c].pc = "delaying"
  /\ tokens' = Refilled.tokens
  /\ lastRefill' = Refilled.lastRefill
  /\ waiters' = [waiters EXCEPT ![c].pc = "awaitingCheck",
                                ![c].ok = HasToken(Refilled.tokens),
                                ![c].slept = @ + 1]
  /\ UNCHANGED <<now, rl, answer, calls, outsideLimiter>>

TickAny == \E t \in ClockReadings : Tick(t)

ConstructAny == \E cfg \in LimiterConfigs : Construct(cfg)

\* One caller whose calls follow one another, the three queries and the
\* clock.
LimiterNext ==
  \/ TickAny
  \/ ConstructAny
  \/ CheckLimit
  \/ GetRemainingRequests
  \/ GetResetTime
  \/ WaitForLimit(SoleCaller)
  \/ CheckLimitResolved(SoleCaller)
  \/ DelayElapsed(SoleCaller)

LimiterSpec == Init /\ [][LimiterNext]_vars

\* The same caller while the clock stands still.
SequentialNext ==
  \/ ConstructAny
  \/ GetRemainingRequests
  \/ WaitForLimit(SoleCaller)
  \/ CheckLimitResolved(SoleCaller)
  \/ DelayElapsed(SoleCaller)

SequentialSpec == Init /\ [][SequentialNext]_vars

\* Callers whose calls overlap, while the clock stands still.
WaitForLimitAny == \E c \in Callers : WaitForLimit(c)

CheckLimitResolvedAny == \E c \in Callers : CheckLimitResolved(c)

DelayElapsedAny == \E c \in Callers : DelayElapsed(c)

ConcurrentNext ==
  \/ ConstructAny
  \/ WaitForLimitAny
  \/ CheckLimitResolvedAny
  \/ DelayElapsedAny

ConcurrentSpec == Init /\ [][ConcurrentNext]_vars

\* Microtasks and timers are always run in the end: a caller that can take
\* a step takes it.
ConcurrentFairSpec ==
  /\ ConcurrentSpec
  /\ \A c \in Callers : /\ WF_vars(CheckLimitResolved(c))
                        /\ WF_vars(DelayElapsed(c))

(***************************************************************************)
(* Properties of the rate limiter.                                         *)
(***************************************************************************)
InFlight(c) == waiters[c].pc \in {"awaitingCheck", "delaying"}

Admitted(c) == waiters[c].pc = "returned"

\* C11: when the bucket holds n whole tokens and no time elapses, at most n
\* of the waitForLimit calls started together are admitted without sleeping:
\* no two callers are admitted on the same token.  (Checked under
\* ConcurrentSpec, where the clock stands still and the bucket starts with
\* maxTokens tokens.)
C11_AtomicConsumption ==
  rl.constructed =>
    Cardinality({c \in Callers : Admitted(c) /\ waiters[c].slept = 0})
      <= rl.maxTokens

\* C12: in every state of the limiter, whatever calls were made and however
\* the clock moved, 0 <= tokens <= maxTokens; and a full bucket stays full
\* through every call that does not consume.
C12_TokensWithinBucket ==
  /\ [](rl.constructed =>
          /\ RatLeq(RatInt(0), tokens)
          /\ RatLeq(tokens, RatInt(rl.maxTokens)))
  /\ [][(/\ rl.constructed
         /\ tokens = RatInt(rl.maxTokens)
         /\ waiters[SoleCaller].pc # "awaitingCheck")
        => tokens' = RatInt(rl.maxTokens)]_vars

\* The default bucket is full again after a call took a token: the refill
\* that followed added at least 10 tokens (500 ms) to 1199 and was capped.
C12_Witness ==
  /\ rl.constructed
  /\ rl.maxTokens = DEFAULT_REQUESTS_PER_MINUTE
  /\ calls = 1
  /\ Admitted(SoleCaller)
  /\ answer.op = "getRemainingRequests"
  /\ answer.value = Some(DEFAULT_REQUESTS_PER_MINUTE)
  /\ tokens = RatInt(DEFAULT_REQUESTS_PER_MINUTE)

Completed == calls - (IF InFlight(SoleCaller) THEN 1 ELSE 0)

TokensAfter(k) == IF rl.maxTokens - k > 0 THEN rl.maxTokens - k ELSE 0

\* C13: from a full bucket and with no time elapsing, after k consecutive
\* waitForLimit calls the token count is max(0, maxTokens - k), and
\* getRemainingRequests returns that value.
C13_TokensAfterCalls ==
  /\ [](rl.constructed => tokens = RatInt(TokensAfter(Completed)))
  /\ [][answer' # answer => answer'.value = Some(TokensAfter(Completed))]_vars

\* More calls than tokens: the last one sat through every delay.
C13_Witness ==
  /\ rl.constructed
  /\ rl.maxTokens = 1
  /\ calls = 2
  /\ Admitted(SoleCaller)
  /\ waiters[SoleCaller].warned
  /\ answer.value = Some(0)
  /\ tokens = RatInt(0)

\* C14: every waitForLimit call returns in the end, also when no token ever
\* becomes available and callers wait together: a call sleeps at most 100
\* times, each sleep following an unsuccessful poll; when the polls keep
\* failing it logs the warning after the 100th sleep and proceeds; and the
\* consumption on return leaves tokens at max(0, tokens - 1).
C14_WaitForLimitReturns ==
  /\ [](\A c \in Callers :
          /\ waiters[c].slept <= MaxIterations
          /\ waiters[c].slept <= waiters[c].iterations
          /\ waiters[c].warned =>
               Admitted(c) /\ waiters[c].slept = MaxIterations
          /\ (Admitted(c) /\ waiters[c].slept = MaxIterations
                /\ ~waiters[c].ok) => waiters[c].warned)
  /\ [][\A c \in Callers :
          (~Admitted(c) /\ Admitted(c)') =>
            tokens' = IF RatLeq(RatInt(1), tokens)
                      THEN Rat(tokens.n - tokens.d, tokens.d)
                      ELSE RatInt(0)]_vars
  /\ \A c \in Callers : InFlight(c) ~> Admitted(c)

\* Both callers starved together and both gave up waiting.
C14_Witness ==
  \A c \in Callers :
    /\ Admitted(c)
    /\ waiters[c].warned
    /\ waiters[c].slept = MaxIterations

\* A step of checkLimit, getRemainingRequests or getResetTime.
QueryStep ==
  /\ rl.constructed
  /\ rl' = rl
  /\ now' = now
  /\ waiters' = waiters

\* C15: checkLimit, getRemainingRequests and getResetTime never consume a
\* token: they never lower tokens, at an instant already refilled they
\* change nothing, checkLimit answers true exactly when tokens >= 1 after
\* the refill and getRemainingRequests answers the whole tokens then held.
C15_QueriesDoNotConsume ==
  [][QueryStep =>
       /\ RatLeq(tokens, tokens')
       /\ lastRefill = now => (tokens' = tokens /\ lastRefill' = lastRefill)
       /\ answer'.op = "checkLimit" =>
            (answer'.ok <=> RatLeq(RatInt(1), tokens'))
       /\ answer'.op = "getRemainingRequests" =>
            \E v \in 0..rl.maxTokens :
              /\ answer'.value = Some(v)
              /\ RatLeq(RatInt(v), tokens')
              /\ ~RatLeq(RatInt(v + 1), tokens')
       /\ (answer'.op = "getResetTime" /\ tokens' = RatInt(rl.maxTokens)
             /\ rl.maxTokens > 0) => answer'.value = Some(now)]_vars

\* checkLimit answered false on a bucket holding half a token.
C15_Witness ==
  /\ rl.constructed
  /\ answer.op = "checkLimit"
  /\ ~answer.ok
  /\ tokens = Rat(1, 2)
  /\ lastRefill = now

\* A step that calls refillTokens and does not consume.
RefillStep ==
  /\ rl.constructed
  /\ rl' = rl
  /\ now' = now
  /\ waiters[SoleCaller].pc # "awaitingCheck"

\* tokens + elapsed * refillRate, elapsed in milliseconds.
Grown(elapsed) ==
  Rat(tokens.n * rl.windowMs + elapsed * rl.maxTokens * tokens.d,
      tokens.d * rl.windowMs)

\* C16: a refill seen with a regressed clock (now < lastRefill) changes only
\* lastRefill, which becomes now; with zero elapsed time it changes nothing;
\* with positive elapsed time tokens becomes
\* min(maxTokens, tokens + elapsed * refillRate) and lastRefill becomes now.
C16_RefillSemantics ==
  [][RefillStep =>
       LET elapsed == now - lastRefill
       IN  /\ elapsed < 0 => (lastRefill' = now /\ tokens' = tokens)
           /\ elapsed = 0 => (lastRefill' = lastRefill /\ tokens' = tokens)
           /\ elapsed > 0 =>
                /\ lastRefill' = now
                /\ tokens' = IF RatLeq(Grown(elapsed), RatInt(rl.maxTokens))
                             THEN Grown(elapsed)
                             ELSE RatInt(rl.maxTokens)]_vars

\* Half a token comes only from a refill 500 ms after the bucket was
\* emptied, which left lastRefill at 500 or later; lastRefill = 0 afterwards
\* comes only from a refill that saw the clock behind lastRefill, and the
\* half token is still there.
C16_Witness ==
  /\ rl.constructed
  /\ rl.maxTokens = 1
  /\ tokens = Rat(1, 2)
  /\ lastRefill = 0
  /\ now = 0

(***************************************************************************)
(* The market data providers: BinanceMarketDataProvider and                *)
(* CapitalComMarketDataProvider.                                           *)
(*                                                                         *)
(* One call of getMarketData, getKlines or getTicker24h is followed from   *)
(* the call to its return or throw.  The rate limiter and the exchange     *)
(* client are injected collaborators: each awaited call of theirs either   *)
(* resolves or rejects.  Backoff time is counted in steps of retryDelay,   *)
(* and a timer may fire one step late.                                     *)
(***************************************************************************)
DEFAULT_RETRY_ATTEMPTS == 3

DEFAULT_RETRY_DELAY == 1000

Providers == {"Binance", "CapitalCom"}

Methods == {"getMarketData", "getKlines", "getTicker24h"}

\* Whether the method starts with ensureInitialized().
EnsuresInitialized(provider) == provider = "Binance"

\* Whether the method awaits rateLimiter.waitForLimit() before its request.
AwaitsLimiter(provider, method) ==
  \/ provider = "Binance"
  \/ provider = "CapitalCom" /\ method = "getMarketData"

\* Whether the method hands its request to retryOperation.
ThroughRetry(provider) == provider = "Binance"

\* Whether the method's catch block wraps the error in a new Error.
WrapsError(provider) == provider = "Binance"

\* attempt === retryAttempts + 1 in place of attempt === retryAttempts.
LastAttemptLate(attempt) == attempt = DEFAULT_RETRY_ATTEMPTS + 1

\* attempt === this.config.retryAttempts
LastAttempt(attempt) == attempt = DEFAULT_RETRY_ATTEMPTS

\* this.config.retryDelay whatever the attempt.
BackoffDelayConstant(attempt) == DEFAULT_RETRY_DELAY

\* this.config.retryDelay * attempt
BackoffDelay(attempt) == DEFAULT_RETRY_DELAY * attempt

Event(kind, attempt, viaRetry, ms) ==
  [kind |-> kind, attempt |-> attempt, viaRetry |-> viaRetry, ms |-> ms]

Note(kind) == Event(kind, 0, FALSE, 0)

Data(attempt) ==
  [status |-> "data", attempt |-> attempt, origin |-> "network",
   wrapped |-> FALSE]

Failure(origin, attempt, wrapped) ==
  [status |-> "error", attempt |-> attempt, origin |-> origin,
   wrapped |-> wrapped]

\* The request is issued: through retryOperation as attempt 1, or directly.
IssueRequest(r, tr) ==
  IF ThroughRetry(r.provider)
  THEN /\ request' = [r EXCEPT !.pc = "fetching", !.attempt = 1]
       /\ trace' = Append(tr, Event("request", 1, TRUE, 0))
  ELSE /\ request' = [r EXCEPT !.pc = "fetching"]
       /\ trace' = Append(tr, Event("request", 0, FALSE, 0))

\* After ensureInitialized: await waitForLimit(), or straight to the request.
Proceed(r, tr) ==
  IF AwaitsLimiter(r.provider, r.method)
  THEN /\ request' = [r EXCEPT !.pc = "waitForLimit"]
       /\ trace' = Append(tr, Note("waitForLimit"))
  ELSE IssueRequest(r, tr)

\* The method is called on a provider that is initialized or not.
Call(provider, method, isInitialized) ==
  /\ request.pc = "idle"
  /\ LET r == [NoRequest EXCEPT !.provider = provider, !.method = method,
                                !.isInitialized = isInitialized]
     IN  IF EnsuresInitialized(provider) /\ ~isInitialized
         THEN /\ request' = [r EXCEPT !.pc = "loadMarkets"]
              /\ trace' = <<Note("loadMarkets")>>
         ELSE Proceed(r, <<>>)
  /\ UNCHANGED outsideProvider

\* initialize: loadMarkets() resolved, then fetchStatus() resolved.
InitResolved ==
  /\ request.pc \in {"loadMarkets", "fetchStatus"}
  /\ IF request.pc = "loadMarkets"
     THEN /\ request' = [request EXCEPT !.pc = "fetchStatus"]
          /\ trace' = Append(trace, Note("fetchStatus"))
     ELSE Proceed([request EXCEPT !.isInitialized = TRUE], trace)
  /\ UNCHANGED outsideProvider

\* initialize: 'Failed to initialize Binance provider: ...'
InitRejected ==
  /\ request.pc \in {"loadMarkets", "fetchStatus"}
  /\ request' = [request EXCEPT !.pc = "done",
                                !.outcome = Failure("initialize", 0, TRUE)]
  /\ trace' = Append(trace, Note("throw"))
  /\ UNCHANGED outsideProvider

LimiterResolved ==
  /\ request.pc = "waitForLimit"
  /\ IssueRequest(request, Append(trace, Note("limitResolved")))
  /\ UNCHANGED outsideProvider

\* waitForLimit rejected and the provider went on to its request.
LimiterRejectedSwallowed ==
  /\ request.pc = "waitForLimit"
  /\ IssueRequest(request, Append(trace, Note("limitRejected")))
  /\ UNCHANGED outsideProvider

\* waitForLimit rejected: the await stands outside the try block.
LimiterRejected ==
  /\ request.pc = "waitForLimit"
  /\ request' = [request EXCEPT !.pc = "done",
                                !.outcome = Failure("limiter", 0, FALSE)]
  /\ trace' = Append(trace, Note("limitRejected")) \o <<Note("throw")>>
  /\ UNCHANGED outsideProvider

\* The exchange answered: the method maps the answer and returns it.
OperationResolved ==
  /\ request.pc = "fetching"
  /\ request' = [request EXCEPT !.pc = "done",
                                !.outcome = Data(request.attempt)]
  /\ trace' = Append(trace, Event("return", request.attempt,
                                  ThroughRetry(request.provider), 0))
  /\ UNCHANGED outsideProvider

\* The exchange failed.  Inside retryOperation: throw after the last
\* attempt, else warn and sleep retryDelay * attempt.  The method's catch
\* block then wraps (Binance) or rethrows (Capital.com) the error.
OperationRejected ==
  /\ request.pc = "fetching"
  /\ LET attempt == request.attempt
         failed == Event("failed", attempt, ThroughRetry(request.provider), 0)
     IN  IF ThroughRetry(request.provider) /\ ~LastAttempt(attempt)
         THEN /\ request' = [request EXCEPT !.pc = "backoff",
                                            !.lastError = attempt,
                                            !.delay = BackoffDelay(attempt),
                                            !.waited = 0]
              /\ trace' = trace \o
                   <<failed, Event("warn", attempt, TRUE, 0),
                     Event("sleep", attempt, TRUE, BackoffDelay(attempt))>>
         ELSE /\ request' =
                   [request EXCEPT
                      !.pc = "done", !.lastError = attempt,
                      !.outcome = Failure("network", attempt,
                                          WrapsError(request.provider))]
              /\ trace' = trace \o <<failed, Note("throw")>>
  /\ UNCHANGED outsideProvider

\* Time passes while the backoff timer is set.
BackoffTick ==
  /\ request.pc = "backoff"
  /\ request.waited <= request.delay
  /\ request' = [request EXCEPT !.waited = @ + DEFAULT_RETRY_DELAY]
  /\ UNCHANGED <<trace, outsideProvider>>

\* The timer fires and the next attempt waits for the limiter once more.
BackoffElapsedRewaits ==
  /\ request.pc = "backoff"
  /\ request.waited >= request.delay
  /\ LET attempt == request.attempt + 1
     IN  IF attempt <= DEFAULT_RETRY_ATTEMPTS
         THEN /\ request' = [request EXCEPT !.pc = "fetching",
                                            !.attempt = attempt]
              /\ trace' = trace \o
                   <<Note("waitForLimit"), Note("limitResolved"),
                     Event("request", attempt, TRUE, request.waited)>>
         ELSE /\ request' =
                   [request EXCEPT
                      !.pc = "done", !.attempt = attempt,
                      !.outcome = Failure("network", request.lastError,
                                          WrapsError(request.provider))]
              /\ trace' = Append(trace, Note("throw"))
  /\ UNCHANGED outsideProvider

\* The timer fires: attempt++ and the loop condition.
BackoffElapsed ==
  /\ request.pc = "backoff"
  /\ request.waited >= request.delay
  /\ LET attempt == request.attempt + 1
     IN  IF attempt <= DEFAULT_RETRY_ATTEMPTS
         THEN /\ request' = [request EXCEPT !.pc = "fetching",
                                            !.attempt = attempt]
              /\ trace' = Append(trace, Event("request", attempt, TRUE,
                                              request.waited))
         ELSE /\ request' =
                   [request EXCEPT
                      !.pc = "done", !.attempt = attempt,
                      !.outcome = Failure("network", request.lastError,
                                          WrapsError(request.provider))]
              /\ trace' = Append(trace, Note("throw"))
  /\ UNCHANGED outsideProvider

CallAny ==
  \E provider \in Providers, method \in Methods, isInitialized \in BOOLEAN :
    Call(provider, method, isInitialized)

ProviderNext ==
  \/ CallAny
  \/ InitResolved
  \/ InitRejected
  \/ LimiterResolved
  \/ LimiterRejected
  \/ OperationResolved
  \/ OperationRejected
  \/ BackoffTick
  \/ BackoffElapsed

ProviderSpec == Init /\ [][ProviderNext]_vars

(***************************************************************************)
(* Properties of a provider request (checked under ProviderSpec).          *)
(***************************************************************************)
TraceIdx(kinds) == {i \in DOMAIN trace : trace[i].kind \in kinds}

Requests == TraceIdx({"request"})

Finished == request.pc = "done"

\* C17: for both providers, every getMarketData, getKlines and getTicker24h
\* call first completes waitForLimit and only then issues its network
\* request, and that request is executed through the retry executor.
C17_LimiterThenRetry ==
  \A i \in Requests :
    /\ \E j \in TraceIdx({"limitResolved"}) : j < i
    /\ trace[i].viaRetry

RetryRequests == {i \in Requests : trace[i].viaRetry}

Failures == {i \in TraceIdx({"failed"}) : trace[i].viaRetry}

\* Failed attempts that were followed by another attempt.
Retried ==
  {i \in Failures : \E j \in RetryRequests : j > i}

\* C19: retryOperation invokes the operation at least once and at most
\* retryAttempts (3) times, again only after the previous attempt failed;
\* it returns the result of the first successful attempt without further
\* attempts; when all attempts fail it propagates the error of the last
\* attempt; and it logs exactly one retry warning per failed attempt that
\* is followed by another attempt.
C19_RetryAttempts ==
  LET n == Cardinality(RetryRequests)
  IN  /\ (ThroughRetry(request.provider)
            /\ TraceIdx({"limitResolved"}) # {}) => n >= 1
      /\ n <= DEFAULT_RETRY_ATTEMPTS
      /\ {trace[i].attempt : i \in RetryRequests} = 1..n
      /\ \A i, j \in RetryRequests :
           (i < j /\ trace[j].attempt = trace[i].attempt + 1) =>
             \E f \in Failures :
               i < f /\ f < j /\ trace[f].attempt = trace[i].attempt
      /\ \A i \in TraceIdx({"return"}) :
           /\ i = Len(trace)
           /\ trace[i].viaRetry =>
                /\ trace[i].attempt = n
                /\ request.outcome = Data(n)
                /\ Cardinality(Failures) = n - 1
      /\ (ThroughRetry(request.provider) /\ Finished
            /\ request.outcome.status = "error"
            /\ request.outcome.origin = "network") =>
           /\ Cardinality(Failures) = n
           /\ request.outcome.attempt = n
      /\ \A i \in TraceIdx({"warn"}) :
           /\ trace[i].attempt \in {trace[f].attempt : f \in Failures}
           /\ \A j \in TraceIdx({"warn"}) :
                trace[j].attempt = trace[i].attempt => j = i
      /\ Finished =>
           {trace[i].attempt : i \in TraceIdx({"warn"})}
             = {trace[f].attempt : f \in Retried}

\* Two attempts failed and were retried, and the third one succeeded.
C19_Witness ==
  /\ Finished
  /\ request.outcome = Data(DEFAULT_RETRY_ATTEMPTS)
  /\ Cardinality(TraceIdx({"warn"})) = DEFAULT_RETRY_ATTEMPTS - 1

MaxSockets == 2

\* No call is under way.
Settled == life.pc \in {"idle", "done"}

Begin(provider, method, at) ==
  [NoOperation EXCEPT !.provider = provider, !.method = method, !.pc = at]

Awaiting(provider, method, at) ==
  /\ life.provider = provider
  /\ life.method = method
  /\ life.pc \in at

ReturnVoid == [life EXCEPT !.pc = "done", !.returned = "void"]

ReturnValue(v, venue) ==
  [life EXCEPT !.pc = "done", !.returned = "value", !.value = v,
               !.venue = venue]

Throw == [life EXCEPT !.pc = "done", !.returned = "threw"]

\* BinanceMarketDataProvider.initialize(), up to await loadMarkets().
BinanceInitialize ==
  /\ Settled
  /\ life' = Begin("Binance", "initialize", "loadMarkets")
  /\ wire' = <<"loadMarkets">>
  /\ UNCHANGED <<binance, capitalCom, initialized, outsideLifecycle>>

\* loadMarkets() resolved: await fetchStatus(); fetchStatus() resolved:
\* this.isInitialized = true.
BinanceInitializeResolved ==
  /\ Awaiting("Binance", "initialize", {"loadMarkets", "fetchStatus"})
  /\ IF life.pc = "loadMarkets"
     THEN /\ life' = [life EXCEPT !.pc = "fetchStatus"]
          /\ wire' = Append(wire, "fetchStatus")
          /\ UNCHANGED <<binance, initialized>>
     ELSE /\ binance' = [binance EXCEPT !.isInitialized = TRUE]
          /\ initialized' = [initialized EXCEPT !["Binance"] = TRUE]
          /\ life' = ReturnVoid
          /\ wire' = Append(wire, "initialized")
  /\ UNCHANGED <<capitalCom, outsideLifecycle>>

\* catch: throw new Error('Failed to initialize Binance provider: ...').
BinanceInitializeRejected ==
  /\ Awaiting("Binance", "initialize", {"loadMarkets", "fetchStatus"})
  /\ life' = Throw
  /\ wire' = Append(wire, "throw")
  /\ UNCHANGED <<binance, capitalCom, initialized, outsideLifecycle>>

\* disconnect(): this.exchange is set by the constructor; await close().
BinanceDisconnect ==
  /\ Settled
  /\ life' = Begin("Binance", "disconnect", "close")
  /\ wire' = <<"close">>
  /\ UNCHANGED <<binance, capitalCom, initialized, outsideLifecycle>>

BinanceCloseResolved ==
  /\ Awaiting("Binance", "disconnect", {"close"})
  /\ binance' = [binance EXCEPT !.isInitialized = FALSE]
  /\ initialized' = [initialized EXCEPT !["Binance"] = FALSE]
  /\ life' = ReturnVoid
  /\ wire' = Append(wire, "disconnected")
  /\ UNCHANGED <<capitalCom, outsideLifecycle>>

\* close() rejected: disconnect has no try block.
BinanceCloseRejected ==
  /\ Awaiting("Binance", "disconnect", {"close"})
  /\ life' = Throw
  /\ wire' = Append(wire, "throw")
  /\ UNCHANGED <<binance, capitalCom, initialized, outsideLifecycle>>

\* isHealthy(): if (!this.isInitialized) return false; await fetchStatus().
BinanceIsHealthy ==
  /\ Settled
  /\ IF ~binance.isInitialized
     THEN /\ life' = [Begin("Binance", "isHealthy", "done") EXCEPT
                        !.returned = "value", !.value = FALSE]
          /\ wire' = <<>>
     ELSE /\ life' = Begin("Binance", "isHealthy", "fetchStatus")
          /\ wire' = <<"fetchStatus">>
  /\ UNCHANGED <<binance, capitalCom, initialized, outsideLifecycle>>

\* What the exchange says of itself when fetchStatus() resolves.
ExchangeStatuses == {"ok", "maintenance"}

\* return status.status === 'ok'
BinanceStatusResolved(status) ==
  /\ Awaiting("Binance", "isHealthy", {"fetchStatus"})
  /\ life' = ReturnValue(status = "ok", status)
  /\ wire' = Append(wire, status)
  /\ UNCHANGED <<binance, capitalCom, initialized, outsideLifecycle>>

\* catch: warn 'Binance health check failed'; return false.
BinanceStatusRejected ==
  /\ Awaiting("Binance", "isHealthy", {"fetchStatus"})
  /\ life' = ReturnValue(FALSE, "rejected")
  /\ wire' = Append(wire, "warn")
  /\ UNCHANGED <<binance, capitalCom, initialized, outsideLifecycle>>

\* What initialize does once the session request has answered, in order:
\* this.sessionTokens = {...}; setupAxiosDefaults(); initializeWebSocket();
\* this.isConnected = true.
HandshakeTail == <<"storeTokens", "attachHeaders", "openSocket", "connected">>

\* The same with isConnected set before the streaming channel is opened.
HandshakeCompletedEarly(c) ==
  [state |-> [c EXCEPT !.sessionTokens = "tokens", !.headers = TRUE,
                       !.wsClient = "socket", !.sockets = @ + 1,
                       !.opened = FALSE, !.isConnected = TRUE],
   did |-> <<"storeTokens", "attachHeaders", "connected", "openSocket">>]

\* The provider after those statements and what they did.  new WebSocket
\* replaces the reference held in wsClient.
HandshakeCompleted(c) ==
  [state |-> [c EXCEPT !.sessionTokens = "tokens", !.headers = TRUE,
                       !.wsClient = "socket", !.sockets = @ + 1,
                       !.opened = FALSE, !.isConnected = TRUE],
   did |-> HandshakeTail]

\* CapitalComMarketDataProvider.initialize(), up to await waitForLimit().
CapitalComInitialize ==
  /\ Settled
  /\ capitalCom.sockets < MaxSockets
  /\ life' = Begin("CapitalCom", "initialize", "waitForLimit")
  /\ wire' = <<"waitForLimit">>
  /\ UNCHANGED <<binance, capitalCom, initialized, outsideLifecycle>>

\* waitForLimit() resolved: GET /session/encryptionKey; that resolved: POST
\* /session; that resolved: the rest of the try block runs to its end.
CapitalComInitializeResolved ==
  /\ Awaiting("CapitalCom", "initialize",
              {"waitForLimit", "encryptionKey", "session"})
  /\ IF life.pc = "waitForLimit"
     THEN /\ life' = [life EXCEPT !.pc = "encryptionKey"]
          /\ wire' = Append(wire, "encryptionKey")
          /\ UNCHANGED <<capitalCom, initialized>>
     ELSE IF life.pc = "encryptionKey"
     THEN /\ life' = [life EXCEPT !.pc = "session"]
          /\ wire' = Append(wire, "session")
          /\ UNCHANGED <<capitalCom, initialized>>
     ELSE /\ capitalCom' = HandshakeCompleted(capitalCom).state
          /\ wire' = wire \o HandshakeCompleted(capitalCom).did
          /\ initialized' = [initialized EXCEPT !["CapitalCom"] = TRUE]
          /\ life' = ReturnVoid
  /\ UNCHANGED <<binance, outsideLifecycle>>

\* catch: log 'Failed to initialize CapitalCom provider'; throw error.
CapitalComInitializeRejected ==
  /\ Awaiting("CapitalCom", "initialize",
              {"waitForLimit", "encryptionKey", "session"})
  /\ life' = Throw
  /\ wire' = Append(wire, "throw")
  /\ UNCHANGED <<binance, capitalCom, initialized, outsideLifecycle>>

\* The fields disconnect() resets in its last two statements.
LoggedOutKeepingTokens(c) == [c EXCEPT !.isConnected = FALSE]

\* this.isConnected = false; this.sessionTokens = null
LoggedOut(c) == [c EXCEPT !.isConnected = FALSE, !.sessionTokens = "null"]

\* disconnect(): close and drop the socket; with session tokens, await
\* DELETE /session, otherwise finish at once.
CapitalComDisconnect ==
  /\ Settled
  /\ LET closed == IF capitalCom.wsClient # "null"
                   THEN <<"closeSocket">> ELSE <<>>
         c == [capitalCom EXCEPT !.wsClient = "null"]
     IN  IF capitalCom.sessionTokens # "null"
         THEN /\ capitalCom' = c
              /\ life' = Begin("CapitalCom", "disconnect", "deleteSession")
              /\ wire' = Append(closed, "deleteSession")
              /\ UNCHANGED initialized
         ELSE /\ capitalCom' = LoggedOut(c)
              /\ life' = [Begin("CapitalCom", "disconnect", "done") EXCEPT
                            !.returned = "void"]
              /\ wire' = closed
              /\ initialized' = [initialized EXCEPT !["CapitalCom"] = FALSE]
  /\ UNCHANGED <<binance, outsideLifecycle>>

\* DELETE /session resolved.
CapitalComSessionClosed ==
  /\ Awaiting("CapitalCom", "disconnect", {"deleteSession"})
  /\ capitalCom' = LoggedOut(capitalCom)
  /\ initialized' = [initialized EXCEPT !["CapitalCom"] = FALSE]
  /\ life' = ReturnVoid
  /\ wire' = Append(wire, "loggedOut")
  /\ UNCHANGED <<binance, outsideLifecycle>>

\* DELETE /session rejected: catch logs 'Error during logout' and goes on.
CapitalComSessionCloseFailed ==
  /\ Awaiting("CapitalCom", "disconnect", {"deleteSession"})
  /\ capitalCom' = LoggedOut(capitalCom)
  /\ initialized' = [initialized EXCEPT !["CapitalCom"] = FALSE]
  /\ life' = ReturnVoid
  /\ wire' = Append(wire, "logoutError")
  /\ UNCHANGED <<binance, outsideLifecycle>>

\* isHealthy(): await GET /api/v1/ping, whatever isConnected says.
CapitalComIsHealthy ==
  /\ Settled
  /\ life' = Begin("CapitalCom", "isHealthy", "ping")
  /\ wire' = <<"ping">>
  /\ UNCHANGED <<binance, capitalCom, initialized, outsideLifecycle>>

\* return true
CapitalComPingResolved ==
  /\ Awaiting("CapitalCom", "isHealthy", {"ping"})
  /\ life' = ReturnValue(TRUE, "ok")
  /\ wire' = Append(wire, "ok")
  /\ UNCHANGED <<binance, capitalCom, initialized, outsideLifecycle>>

\* catch: log 'Health check failed'; return false.
CapitalComPingRejected ==
  /\ Awaiting("CapitalCom", "isHealthy", {"ping"})
  /\ life' = ReturnValue(FALSE, "rejected")
  /\ wire' = Append(wire, "error")
  /\ UNCHANGED <<binance, capitalCom, initialized, outsideLifecycle>>

\* wsClient.onclose of a socket created by initializeWebSocket.
SocketClosed ==
  /\ capitalCom.sockets > 0
  /\ capitalCom' = [capitalCom EXCEPT !.sockets = @ - 1,
                                      !.isConnected = FALSE]
  /\ UNCHANGED <<binance, life, wire, initialized, outsideLifecycle>>

BinanceStatusResolvedAny ==
  \E status \in ExchangeStatuses : BinanceStatusResolved(status)

LifecycleNext ==
  \/ BinanceInitialize
  \/ BinanceInitializeResolved
  \/ BinanceInitializeRejected
  \/ BinanceDisconnect
  \/ BinanceCloseResolved
  \/ BinanceCloseRejected
  \/ BinanceIsHealthy
  \/ BinanceStatusResolvedAny
  \/ BinanceStatusRejected
  \/ CapitalComInitialize
  \/ CapitalComInitializeResolved
  \/ CapitalComInitializeRejected
  \/ CapitalComDisconnect
  \/ CapitalComSessionClosed
  \/ CapitalComSessionCloseFailed
  \/ CapitalComIsHealthy
  \/ CapitalComPingResolved
  \/ CapitalComPingRejected
  \/ SocketClosed

LifecycleSpec == Init /\ [][LifecycleNext]_vars

(***************************************************************************)
(* Properties of the providers' lifecycle (checked under LifecycleSpec).   *)
(***************************************************************************)
HealthAnswered == life.method = "isHealthy" /\ life.pc = "done"

\* C21: isHealthy answers false whenever the provider's initialize has not
\* completed successfully since construction or since the last disconnect,
\* whatever the venue answers to the liveness request.
C21_UnhealthyUnlessInitialized ==
  (HealthAnswered /\ ~initialized[life.provider]) => life.value = FALSE

IsPrefix(a, b) == Len(a) <= Len(b) /\ SubSeq(b, 1, Len(a)) = a

CapitalComInitializing ==
  life.provider = "CapitalCom" /\ life.method = "initialize"

\* The steps of the handshake in the order the claim gives them.
HandshakeOrder ==
  <<"waitForLimit", "encryptionKey", "session", "storeTokens",
    "attachHeaders", "openSocket", "connected">>

CapitalComDisconnecting ==
  life.provider = "CapitalCom" /\ life.method = "disconnect"

SessionCloseRequests == {i \in DOMAIN wire : wire[i] = "deleteSession"}

\* C23: once disconnect of the Capital.com provider has returned, wsClient
\* and sessionTokens are null and isConnected is false, also when DELETE
\* /session failed; the call sends DELETE /session once if sessionTokens was
\* set when it was called and not at all otherwise.
C23_DisconnectReleases ==
  /\ []((CapitalComDisconnecting /\ life.pc = "done") =>
          /\ life.returned = "void"
          /\ capitalCom.wsClient = "null"
          /\ capitalCom.sessionTokens = "null"
          /\ ~capitalCom.isConnected)
  /\ []((CapitalComDisconnecting /\ life.pc # "done") =>
          Cardinality(SessionCloseRequests) = 1)
  /\ [][(/\ Settled
         /\ CapitalComDisconnecting'
         /\ (life' # life \/ wire' # wire))
        => /\ Cardinality(SessionCloseRequests') =
                IF capitalCom.sessionTokens # "null" THEN 1 ELSE 0
           /\ (life'.pc = "done") = (capitalCom.sessionTokens = "null")]_vars
  /\ [][(CapitalComDisconnecting /\ ~Settled /\ life' # life)
        => /\ wire' \in {Append(wire, "loggedOut"),
                         Append(wire, "logoutError")}
           /\ life'.pc = "done"]_vars

\* disconnect returned after its session-close request had failed, on a
\* provider that held a socket and session tokens.
C23_Witness ==
  /\ CapitalComDisconnecting
  /\ life.pc = "done"
  /\ wire = <<"closeSocket", "deleteSession", "logoutError">>
  /\ capitalCom.sessionTokens = "null"

(***************************************************************************)
(* InMemoryMarketDataCache.                                                *)
(*                                                                         *)
(* get, set, delete and clear are async functions without an await: each   *)
(* runs to its end when called.  The clock moves in steps of the cleanup   *)
(* interval, and the sweeper runs when at least one interval has passed    *)
(* since it was armed (a timer may fire late, never early).  Date.now() is *)
(* taken not to go backwards.                                              *)
(***************************************************************************)
DEFAULT_TTL == 60000

CLEANUP_INTERVAL == 30000

\* Steps of the clock that are followed.
MaxCacheTime == 3

Contents == {1, 2}

\* The ttl argument of set: omitted, or a number of milliseconds.
TtlArguments == {Undefined, Some(0), Some(CLEANUP_INTERVAL)}

CacheItem(value, expiry) == [value |-> value, expiry |-> expiry]

\* Date.now() >= item.expiry
ExpiredAtExpiry(item, t) == t >= item.expiry

\* get: Date.now() > item.expiry
Expired(item, t) == t > item.expiry

\* cleanupExpired with now >= item.expiry.
SweptAtExpiry(item, t) == t >= item.expiry

\* cleanupExpired: now > item.expiry
Swept(item, t) == t > item.expiry

\* Date.now() + DEFAULT_TTL whatever ttl is.
ExpiryIgnoringTtl(t, ttl) == t + DEFAULT_TTL

\* set: ttl = CACHE_CONSTANTS.DEFAULT_TTL; expiry = Date.now() + ttl
Expiry(t, ttl) == t + (IF ttl = Undefined THEN DEFAULT_TTL ELSE ttl[1])

\* get(key) on the map c at the instant t: what it returns (Undefined for
\* null) and the map it leaves.
Get(c, key, t) ==
  IF c[key] = Undefined
  THEN [value |-> Undefined, cache |-> c]
  ELSE IF Expired(c[key][1], t)
  THEN [value |-> Undefined, cache |-> [c EXCEPT ![key] = Undefined]]
  ELSE [value |-> Some(c[key][1].value), cache |-> c]

\* cleanupExpired() on the map c at the instant t.
CleanedUp(c, t) ==
  [k \in Keys |->
     IF c[k] # Undefined /\ Swept(c[k][1], t) THEN Undefined ELSE c[k]]

CacheGet(key) ==
  /\ got' = [op |-> "get", key |-> key, value |-> Get(cache, key, now).value]
  /\ cache' = Get(cache, key, now).cache
  /\ unswept' = Get(unswept, key, now).cache
  /\ UNCHANGED <<cleanupInterval, lastSet, now, outsideCache>>

CacheSet(key, value, ttl) ==
  /\ cache' = [cache EXCEPT ![key] = Some(CacheItem(value, Expiry(now, ttl)))]
  /\ unswept' =
       [unswept EXCEPT ![key] = Some(CacheItem(value, Expiry(now, ttl)))]
  /\ lastSet' = [lastSet EXCEPT
                   ![key] = Some([value |-> value, at |-> now, ttl |-> ttl])]
  /\ got' = [op |-> "set", key |-> key, value |-> Undefined]
  /\ UNCHANGED <<cleanupInterval, now, outsideCache>>

CacheDelete(key) ==
  /\ cache' = [cache EXCEPT ![key] = Undefined]
  /\ unswept' = [unswept EXCEPT ![key] = Undefined]
  /\ lastSet' = [lastSet EXCEPT ![key] = Undefined]
  /\ got' = [op |-> "delete", key |-> key, value |-> Undefined]
  /\ UNCHANGED <<cleanupInterval, now, outsideCache>>

CacheClear ==
  /\ cache' = Nothing
  /\ unswept' = Nothing
  /\ lastSet' = Nothing
  /\ got' = [op |-> "clear", key |-> "none", value |-> Undefined]
  /\ UNCHANGED <<cleanupInterval, now, outsideCache>>

\* The interval timer fires: cleanupExpired().
CleanupExpired ==
  /\ cleanupInterval.active
  /\ now >= cleanupInterval.armed + CLEANUP_INTERVAL
  /\ cache' = CleanedUp(cache, now)
  /\ cleanupInterval' = [cleanupInterval EXCEPT !.armed = now]
  /\ UNCHANGED <<got, unswept, lastSet, now, outsideCache>>

\* destroy() without clearInterval.
TimerLeftRunning(timer) == timer

\* destroy: clearInterval(this.cleanupInterval)
TimerCleared(timer) == [timer EXCEPT !.active = FALSE]

CacheDestroy ==
  /\ cleanupInterval' = TimerCleared(cleanupInterval)
  /\ cache' = Nothing
  /\ unswept' = Nothing
  /\ lastSet' = Nothing
  /\ got' = [op |-> "destroy", key |-> "none", value |-> Undefined]
  /\ UNCHANGED <<now, outsideCache>>

\* Time passes.
CacheClockAdvance ==
  /\ now < MaxCacheTime * CLEANUP_INTERVAL
  /\ now' = now + CLEANUP_INTERVAL
  /\ UNCHANGED <<cacheVars, outsideCache>>

CacheGetAny == \E key \in Keys : CacheGet(key)

CacheSetAny ==
  \E key \in Keys, value \in Contents, ttl \in TtlArguments :
    CacheSet(key, value, ttl)

CacheDeleteAny == \E key \in Keys : CacheDelete(key)

CacheNext ==
  \/ CacheGetAny
  \/ CacheSetAny
  \/ CacheDeleteAny
  \/ CacheClear
  \/ CleanupExpired
  \/ CacheDestroy
  \/ CacheClockAdvance

CacheSpec == Init /\ [][CacheNext]_vars

(***************************************************************************)
(* Properties of the cache (checked under CacheSpec).                      *)
(***************************************************************************)
\* A step that is a call of the cache (the call and its answer are in
\* got'), not a run of the sweeper nor a step of the clock.
CallStep(op) ==
  /\ got'.op = op
  /\ now' = now
  /\ cleanupInterval' = cleanupInterval

GetStep == CallStep("get") /\ lastSet' = lastSet

\* C24: get(k) returns the stored value exactly when the map holds an entry
\* for k and now <= its expiry (also at now = expiry); otherwise it returns
\* null, removing the entry if there was one; no other entry changes.
C24_GetReturnsLiveEntry ==
  [][GetStep =>
       LET k == got'.key
           live == cache[k] # Undefined /\ now <= cache[k][1].expiry
       IN  /\ got'.value = IF live THEN Some(cache[k][1].value)
                                   ELSE Undefined
           /\ cache' = IF live THEN cache
                               ELSE [cache EXCEPT ![k] = Undefined]]_vars

\* A get at the very instant of the entry's expiry returned the value.
C24_Witness ==
  /\ got.op = "get"
  /\ got.value # Undefined
  /\ now > 0
  /\ cache[got.key] # Undefined
  /\ cache[got.key][1].expiry = now

\* C25: get(k) returns the value of the last set(k, v, ttl) exactly when no
\* delete(k) or clear followed that set and now <= its instant + ttl (60 s
\* when ttl is omitted); set(k, ...) replaces the value and the expiry of k
\* and delete(k) removes k alone.
C25_LastSetWins ==
  /\ [][GetStep =>
          LET k == got'.key
              last == lastSet[k]
              ttl == IF last[1].ttl = Undefined THEN 60000
                                                ELSE last[1].ttl[1]
          IN  got'.value =
                IF last # Undefined /\ now <= last[1].at + ttl
                THEN Some(last[1].value) ELSE Undefined]_vars
  /\ [][CallStep("set") =>
          LET k == got'.key
          IN  /\ cache'[k] # Undefined
              /\ cache'[k][1].value = lastSet'[k][1].value
              /\ cache'[k][1].expiry =
                   now + (IF lastSet'[k][1].ttl = Undefined THEN 60000
                          ELSE lastSet'[k][1].ttl[1])
              /\ \A j \in Keys \ {k} : cache'[j] = cache[j]]_vars
  /\ [][CallStep("delete") =>
          /\ cache'[got'.key] = Undefined
          /\ \A j \in Keys \ {got'.key} : cache'[j] = cache[j]]_vars

\* A value set without ttl at time 0 is gone at 90 s, while a set of the
\* other key still answers.
C25_Witness ==
  /\ got.op = "get"
  /\ got.value = Undefined
  /\ lastSet[got.key] # Undefined
  /\ lastSet[got.key][1].ttl = Undefined
  /\ \E j \in Keys \ {got.key} :
       /\ lastSet[j] # Undefined
       /\ cache[j] # Undefined
       /\ cache[j][1].expiry >= now

\* A step that is a run of the sweeper.
SweepStep == cleanupInterval'.armed # cleanupInterval.armed

\* C26: a run of the sweeper removes exactly the entries with now > expiry
\* and changes no other entry; and every get returns what it would return
\* from a cache given the same calls whose sweeper never runs.
C26_SweeperInvisible ==
  /\ [][SweepStep =>
          /\ \A k \in Keys :
               cache'[k] =
                 IF cache[k] # Undefined /\ now > cache[k][1].expiry
                 THEN Undefined ELSE cache[k]
          /\ got' = got]_vars
  /\ [][GetStep => got'.value = Get(unswept, got'.key, now).value]_vars

\* The sweeper has removed an entry that the cache without sweeper still
\* holds, and a get has been answered since.
C26_Witness ==
  /\ got.op = "get"
  /\ \E k \in Keys : cache[k] = Undefined /\ unswept[k] # Undefined
  /\ \E k \in Keys : cache[k] # Undefined

\* A step that is a call of destroy.
DestroyStep ==
  /\ got'.op = "destroy"
  /\ now' = now
  /\ cleanupInterval'.armed = cleanupInterval.armed

\* C27: destroy empties the map and clears the sweeper timer of the
\* instance, after which no sweep runs again; destroy can always be called,
\* and called again right after itself it changes nothing.
C27_DestroyStopsSweeper ==
  /\ [][DestroyStep =>
          /\ cache' = Nothing
          /\ ~cleanupInterval'.active]_vars
  /\ [][~cleanupInterval.active =>
          /\ ~cleanupInterval'.active
          /\ ~SweepStep]_vars
  /\ [](ENABLED CacheDestroy)
  /\ [](got.op = "destroy" =>
          /\ cache = Nothing
          /\ ~cleanupInterval.active
          /\ TimerCleared(cleanupInterval) = cleanupInterval)

\* Two cleanup intervals have passed since destroy without a sweep, and an
\* entry set after destroy has outlived its expiry in the map.
C27_Witness ==
  /\ ~cleanupInterval.active
  /\ now >= cleanupInterval.armed + 2 * CLEANUP_INTERVAL
  /\ \E k \in Keys : cache[k] # Undefined /\ cache[k][1].expiry < now

(***************************************************************************)
(* getMarketData of the BinanceMarketDataProvider that is given a cache.   *)
(*                                                                         *)
(* The calls follow one another, and between them the provider may be      *)
(* disconnected, the clock may move and the sweeper of the cache may run.  *)
(* cache.get and cache.set run to their end when called; the provider      *)
(* then awaits their promise.  What the exchange answers is the price of   *)
(* the snapshot.  sent lists what the call did, in order (history).        *)
(***************************************************************************)
\* The ttl getMarketData passes to cache.set.
SnapshotTtl == 5000

MarketSymbols == {"BTC/USDT", "ETH/USDT"}

\* const cacheKey = `market_data_${symbol}`
CacheKey(symbol) == IF symbol = "BTC/USDT" THEN "k1" ELSE "k2"

FetchSettled == fetch.pc \in {"idle", "done"}

\* After ensureInitialized(): cache.get(cacheKey) is called and awaited.
LookUp(f, did) ==
  LET key == CacheKey(f.symbol)
  IN  /\ fetch' = [f EXCEPT !.pc = "cacheGet",
                            !.cached = Get(cache, key, now).value]
      /\ sent' = Append(did, "cacheGet")
      /\ cache' = Get(cache, key, now).cache
      /\ unswept' = Get(unswept, key, now).cache
      /\ got' = [op |-> "get", key |-> key,
                 value |-> Get(cache, key, now).value]
      /\ UNCHANGED lastSet

\* getMarketData(symbol), up to its first await: of initialize's
\* loadMarkets() on a provider not initialized, else of cache.get.
GetMarketData(symbol) ==
  /\ FetchSettled
  /\ Settled
  /\ LET f == [NoFetch EXCEPT !.symbol = symbol,
                              !.lazy = ~binance.isInitialized]
     IN  IF ~binance.isInitialized
         THEN /\ fetch' = [f EXCEPT !.pc = "loadMarkets"]
              /\ sent' = <<"loadMarkets">>
              /\ UNCHANGED cacheVars
         ELSE LookUp(f, <<>>)
  /\ UNCHANGED <<binance, initialized, outsideSnapshot>>

\* initialize: loadMarkets() resolved, then fetchStatus() resolved and
\* isInitialized = true; getMarketData goes on to the cache.
SnapshotInitResolved ==
  /\ fetch.pc \in {"loadMarkets", "fetchStatus"}
  /\ IF fetch.pc = "loadMarkets"
     THEN /\ fetch' = [fetch EXCEPT !.pc = "fetchStatus"]
          /\ sent' = Append(sent, "fetchStatus")
          /\ UNCHANGED <<binance, initialized, cacheVars>>
     ELSE /\ binance' = [binance EXCEPT !.isInitialized = TRUE]
          /\ initialized' = [initialized EXCEPT !["Binance"] = TRUE]
          /\ LookUp(fetch, sent)
  /\ UNCHANGED outsideSnapshot

\* initialize: 'Failed to initialize Binance provider: ...'
SnapshotInitRejected ==
  /\ fetch.pc \in {"loadMarkets", "fetchStatus"}
  /\ fetch' = [fetch EXCEPT !.pc = "done", !.returned = "threw"]
  /\ sent' = Append(sent, "throw")
  /\ UNCHANGED <<binance, initialized, cacheVars, outsideSnapshot>>

\* if (cached) return cached; else await this.rateLimiter.waitForLimit().
CacheAnswered ==
  /\ fetch.pc = "cacheGet"
  /\ IF fetch.cached # Undefined
     THEN /\ fetch' = [fetch EXCEPT !.pc = "done", !.returned = "value",
                                    !.value = fetch.cached[1]]
          /\ sent' = Append(sent, "return")
     ELSE /\ fetch' = [fetch EXCEPT !.pc = "waitForLimit"]
          /\ sent' = Append(sent, "waitForLimit")
  /\ UNCHANGED <<binance, initialized, cacheVars, outsideSnapshot>>

\* waitForLimit() resolved: retryOperation makes its first attempt.
SlotGranted ==
  /\ fetch.pc = "waitForLimit"
  /\ fetch' = [fetch EXCEPT !.pc = "fetchTicker", !.attempt = 1]
  /\ sent' = Append(sent, "fetchTicker")
  /\ UNCHANGED <<binance, initialized, cacheVars, outsideSnapshot>>

\* waitForLimit() rejected: the await stands outside the try block.
SlotRefused ==
  /\ fetch.pc = "waitForLimit"
  /\ fetch' = [fetch EXCEPT !.pc = "done", !.returned = "threw"]
  /\ sent' = Append(sent, "throw")
  /\ UNCHANGED <<binance, initialized, cacheVars, outsideSnapshot>>

\* The snapshot is stored whatever the fetch gave: also when it failed.
StoredAlways(ok) == TRUE

\* cache.set stands in the try block after retryOperation: it is reached
\* only when the fetch succeeded.
Stored(ok) == ok

\* cache.set(cacheKey, marketData, 5000) is called and awaited.
Store(f, price) ==
  LET key == CacheKey(f.symbol)
      item == CacheItem(price, Expiry(now, Some(SnapshotTtl)))
  IN  /\ cache' = [cache EXCEPT ![key] = Some(item)]
      /\ unswept' = [unswept EXCEPT ![key] = Some(item)]
      /\ lastSet' = [lastSet EXCEPT
                       ![key] = Some([value |-> price, at |-> now,
                                      ttl |-> Some(SnapshotTtl)])]
      /\ got' = [op |-> "set", key |-> key, value |-> Undefined]

\* fetchTicker resolved: the snapshot is built and handed to cache.set.
TickerFetched(price) ==
  /\ fetch.pc = "fetchTicker"
  /\ fetch' = [fetch EXCEPT !.pc = "cacheSet", !.value = price]
  /\ sent' = Append(sent, "cacheSet")
  /\ IF Stored(TRUE) THEN Store(fetch, price) ELSE UNCHANGED cacheVars
  /\ UNCHANGED <<binance, initialized, outsideSnapshot>>

\* return marketData
SnapshotStored ==
  /\ fetch.pc = "cacheSet"
  /\ fetch' = [fetch EXCEPT !.pc = "done", !.returned = "value"]
  /\ sent' = Append(sent, "return")
  /\ UNCHANGED <<binance, initialized, cacheVars, outsideSnapshot>>

\* fetchTicker rejected: retryOperation sleeps and tries again, or after
\* the last attempt throws, and getMarketData throws 'Failed to fetch
\* market data for ...'.
TickerFailed ==
  /\ fetch.pc = "fetchTicker"
  /\ IF LastAttempt(fetch.attempt)
     THEN /\ fetch' = [fetch EXCEPT !.pc = "done", !.returned = "threw"]
          /\ sent' = Append(sent, "throw")
          /\ IF Stored(FALSE) THEN Store(fetch, 0) ELSE UNCHANGED cacheVars
     ELSE /\ fetch' = [fetch EXCEPT !.pc = "backoff"]
          /\ sent' = Append(sent, "sleep")
          /\ UNCHANGED cacheVars
  /\ UNCHANGED <<binance, initialized, outsideSnapshot>>

\* The backoff timer fires: the next attempt.
RetryTicker ==
  /\ fetch.pc = "backoff"
  /\ fetch' = [fetch EXCEPT !.pc = "fetchTicker", !.attempt = @ + 1]
  /\ sent' = Append(sent, "fetchTicker")
  /\ UNCHANGED <<binance, initialized, cacheVars, outsideSnapshot>>

\* disconnect() is called between two getMarketData calls; the cache is
\* the provider's collaborator and keeps its entries.
DisconnectBetweenCalls ==
  /\ FetchSettled
  /\ binance.isInitialized
  /\ BinanceDisconnect

GetMarketDataAny == \E symbol \in MarketSymbols : GetMarketData(symbol)

TickerFetchedAny == \E price \in Contents : TickerFetched(price)

SnapshotNext ==
  \/ GetMarketDataAny
  \/ SnapshotInitResolved
  \/ SnapshotInitRejected
  \/ CacheAnswered
  \/ SlotGranted
  \/ SlotRefused
  \/ TickerFetchedAny
  \/ SnapshotStored
  \/ TickerFailed
  \/ RetryTicker
  \/ DisconnectBetweenCalls
  \/ BinanceCloseResolved
  \/ BinanceCloseRejected
  \/ CleanupExpired
  \/ CacheClockAdvance

SnapshotSpec == Init /\ [][SnapshotNext]_vars

(***************************************************************************)
(* Properties of getMarketData through the cache (checked under            *)
(* SnapshotSpec).                                                          *)
(***************************************************************************)
SentIdx(kinds) == {i \in DOMAIN sent : sent[i] \in kinds}

FetchDone == fetch.pc = "done"

ServedFromCache == FetchDone /\ fetch.cached # Undefined

\* On a miss the call waits once for a limiter slot before its first
\* fetch, stores the fetched snapshot and returns it; a call that throws
\* has stored nothing.
MissFetchesThenStores ==
  /\ (FetchDone /\ fetch.cached = Undefined /\ fetch.returned = "value") =>
       /\ Cardinality(SentIdx({"waitForLimit"})) = 1
       /\ Cardinality(SentIdx({"cacheSet"})) = 1
       /\ \A i \in SentIdx({"waitForLimit"}), j \in SentIdx({"fetchTicker"}),
             k \in SentIdx({"cacheSet"}) : i < j /\ j < k
       /\ sent[Len(sent) - 1] = "cacheSet"
       /\ sent[Len(sent)] = "return"
  /\ (FetchDone /\ fetch.returned = "threw") => SentIdx({"cacheSet"}) = {}

\* An entry is created or replaced only by the step in which fetchTicker
\* resolved: under the key of the call's symbol, holding the snapshot
\* fetched, with expiry now + 5000.
WritesOnlyAfterFetch ==
  \A k \in Keys :
    (cache'[k] # Undefined /\ cache'[k] # cache[k]) =>
      /\ fetch.pc = "fetchTicker" /\ fetch'.pc = "cacheSet"
      /\ k = CacheKey(fetch.symbol)
      /\ cache'[k] = Some([value |-> fetch'.value, expiry |-> now + 5000])

\* C28 as stated: a getMarketData call served from a live cache entry
\* returns the cached snapshot having called neither waitForLimit nor the
\* network; on a miss it waits for a slot, fetches and stores the snapshot
\* under the symbol's key for 5 s, and only a successful fetch writes to
\* the cache.
C28_CacheHitSendsNothing ==
  /\ [](ServedFromCache =>
          /\ fetch.returned = "value"
          /\ fetch.value = fetch.cached[1]
          /\ sent = <<"cacheGet", "return">>)
  /\ [](MissFetchesThenStores)
  /\ [][WritesOnlyAfterFetch]_vars

\* C28 as amended: as above, except that a call on a provider that is not
\* initialized first sends the two requests of initialize (loadMarkets,
\* fetchStatus) before it looks into the cache, whether or not the entry is
\* live.
C28_CacheHitSendsNoFetch ==
  /\ [](ServedFromCache =>
          /\ fetch.returned = "value"
          /\ fetch.value = fetch.cached[1]
          /\ sent = IF fetch.lazy
                    THEN <<"loadMarkets", "fetchStatus", "cacheGet", "return">>
                    ELSE <<"cacheGet", "return">>)
  /\ [](MissFetchesThenStores)
  /\ [][WritesOnlyAfterFetch]_vars

\* A call on a provider not initialized (disconnected since) was served
\* from the entry that an earlier call had stored at the same instant.
C28_Witness ==
  /\ ServedFromCache
  /\ fetch.lazy
  /\ fetch.value = 2
  /\ lastSet[CacheKey(fetch.symbol)] # Undefined
  /\ lastSet[CacheKey(fetch.symbol)][1].at = now

(***************************************************************************)
(* HighLowIndicator.                                                       *)
(*                                                                         *)
(* Instants are whole minutes counted from Monday 2018-01-01 00:00 of the  *)
(* process's zone, which is taken to be UTC.  An instant that ends in      *)
(* :59.999 (a candle's closeTime, the end of a day) is the minute it falls *)
(* in; the instants compared with each other below end alike, so the       *)
(* comparisons come out as in milliseconds.  The result's symbol, period   *)
(* and calculatedAt fields are left out.                                   *)
(***************************************************************************)
MinutesPerHour == 60

MinutesPerDay == 1440

DaysPerWeek == 7

HOUR == 3600000

DAY == 86400000

\* Date.getDay: 0 is Sunday.
getDay(t) == ((t \div MinutesPerDay) + 1) % DaysPerWeek

\* Date.setHours(0, 0, 0, 0).
StartOfDay(t) == (t \div MinutesPerDay) * MinutesPerDay

\* new Date(year, month, 1) for December 2017 (0) to April 2018 (4).
FirstOfMonth(m) ==
  CASE m = 0 -> -31 * MinutesPerDay
    [] m = 1 -> 0
    [] m = 2 -> 31 * MinutesPerDay
    [] m = 3 -> 59 * MinutesPerDay
    [] OTHER -> 90 * MinutesPerDay

\* Date.getMonth, counted from 1 for January 2018.
getMonth(t) ==
  CHOOSE m \in 1..3 : FirstOfMonth(m) <= t /\ t < FirstOfMonth(m + 1)

Candle(t, o, h, l, c) ==
  [openTime |-> t, closeTime |-> t + MinutesPerHour - 1,
   open |-> o, high |-> h, low |-> l, close |-> c]

(***************************************************************************)
(* validate.  The fields are numbers and dates by construction.            *)
(***************************************************************************)
HighNotBelowLow(kline) == kline.high >= kline.low

IndicatorValidate(data) ==
  /\ Len(data) # 0
  /\ \A i \in DOMAIN data : HighNotBelowLow(data[i])

(***************************************************************************)
(* Array.filter keeps the order of the array.                              *)
(***************************************************************************)
getPreviousDayData(data, clock) ==
  LET yesterdayStart == StartOfDay(clock - MinutesPerDay)
      yesterdayEnd == yesterdayStart + MinutesPerDay - 1
  IN  SelectSeq(data, LAMBDA kline :
        kline.openTime >= yesterdayStart /\ kline.closeTime <= yesterdayEnd)

mondayOffset(clock) == IF getDay(clock) = 0 THEN 6 ELSE getDay(clock) - 1

getPreviousWeekData(data, clock) ==
  LET currentWeekStart ==
        StartOfDay(clock - mondayOffset(clock) * MinutesPerDay)
      prevWeekStart == currentWeekStart - DaysPerWeek * MinutesPerDay
      prevWeekEnd == currentWeekStart - 1
  IN  SelectSeq(data, LAMBDA kline :
        kline.openTime >= prevWeekStart /\ kline.closeTime <= prevWeekEnd)

getPreviousMonthData(data, clock) ==
  LET prevMonthStart == FirstOfMonth(getMonth(clock) - 1)
      prevMonthEnd == FirstOfMonth(getMonth(clock)) - 1
  IN  SelectSeq(data, LAMBDA kline :
        kline.openTime >= prevMonthStart /\ kline.closeTime <= prevMonthEnd)

getCurrentDayData(data, clock) ==
  LET todayStart == StartOfDay(clock)
  IN  SelectSeq(data, LAMBDA kline : kline.openTime >= todayStart)

getCurrentWeekData(data, clock) ==
  LET weekStart == StartOfDay(clock - mondayOffset(clock) * MinutesPerDay)
  IN  SelectSeq(data, LAMBDA kline : kline.openTime >= weekStart)

getCurrentMonthData(data, clock) ==
  LET monthStart == FirstOfMonth(getMonth(clock))
  IN  SelectSeq(data, LAMBDA kline : kline.openTime >= monthStart)

\* Array.reverse.
Reversed(seq) == [i \in 1..Len(seq) |-> seq[Len(seq) + 1 - i]]

\* Array.slice(0, end).
SliceFromStart(seq, end) ==
  LET stop == IF end < 0 THEN Len(seq) + end ELSE end
  IN  SubSeq(seq, 1, IF stop > Len(seq) THEN Len(seq) ELSE stop)

\* Where Array.sort with the comparator b.openTime - a.openTime puts
\* data[i]: after every candle that opens later and, Array.sort being
\* stable, after the earlier candles of the array that open together with
\* it.
SortedPosition(data, i) ==
  1 + Cardinality({j \in DOMAIN data :
                     \/ data[j].openTime > data[i].openTime
                     \/ data[j].openTime = data[i].openTime /\ j < i})

\* [...data].sort((a, b) => b.openTime.getTime() - a.openTime.getTime()).
SortedByOpenTimeDescending(data) ==
  [p \in 1..Len(data) |->
    data[CHOOSE i \in DOMAIN data : SortedPosition(data, i) = p]]

StandardIntervalLimit == 100

getStandardIntervalData(data) ==
  LET sortedData == SortedByOpenTimeDescending(data)
      count == IF StandardIntervalLimit < Len(data)
               THEN StandardIntervalLimit ELSE Len(data)
  IN  Reversed(SliceFromStart(sortedData, count))

getCustomPeriodData(data, startTime, endTime) ==
  SelectSeq(data, LAMBDA kline :
    kline.openTime >= startTime /\ kline.closeTime <= endTime)

getRollingPeriodDataNewestFirst(data, periods) ==
  SliceFromStart(SortedByOpenTimeDescending(data), periods)

getRollingPeriodData(data, periods) ==
  Reversed(SliceFromStart(SortedByOpenTimeDescending(data), periods))

\* offsetMap[timezone] || 0, in hours.
TimezoneOffset(timezone) ==
  CASE timezone = "UTC" -> 0
    [] timezone = "America/New_York" -> -5
    [] timezone = "Europe/London" -> 0
    [] timezone = "Asia/Tokyo" -> 9
    [] OTHER -> 0

\* date.getTime() + getTimezoneOffset() is the instant itself, the process
\* being in UTC.
convertToTimezone(date, timezone) ==
  date + TimezoneOffset(timezone) * MinutesPerHour

DEFAULT_TIMEZONE == "America/New_York"

\* a || b on optional values.
OrElse(a, b) == IF a # Undefined THEN a[1] ELSE b

\* Date.getHours and Date.getMinutes.
getHours(t) == (t % MinutesPerDay) \div MinutesPerHour

getMinutes(t) == t % MinutesPerHour

isWithinSessionEndExcluded(date, session, timezone) ==
  LET sessionTimezone ==
        OrElse(session.timezone, OrElse(timezone, "America/New_York"))
      sessionTime == convertToTimezone(date, sessionTimezone)
      currentMinutes == getHours(sessionTime) * 60 + getMinutes(sessionTime)
      startMinutes ==
        session.startHour * 60 + OrElse(session.startMinute, 0)
      endMinutes == session.endHour * 60 + OrElse(session.endMinute, 0)
  IN  IF startMinutes > endMinutes
      THEN currentMinutes >= startMinutes \/ currentMinutes < endMinutes
      ELSE currentMinutes >= startMinutes /\ currentMinutes < endMinutes

isWithinSession(date, session, timezone) ==
  LET sessionTimezone ==
        OrElse(session.timezone, OrElse(timezone, "America/New_York"))
      sessionTime == convertToTimezone(date, sessionTimezone)
      hour == getHours(sessionTime)
      minute == getMinutes(sessionTime)
      startHour == session.startHour
      startMinute == OrElse(session.startMinute, 0)
      endHour == session.endHour
      endMinute == OrElse(session.endMinute, 0)
      currentMinutes == hour * 60 + minute
      startMinutes == startHour * 60 + startMinute
      endMinutes == endHour * 60 + endMinute
  IN  IF startMinutes > endMinutes
      THEN currentMinutes >= startMinutes \/ currentMinutes <= endMinutes
      ELSE currentMinutes >= startMinutes /\ currentMinutes <= endMinutes

getSessionPeriodData(data, session, timezone) ==
  SelectSeq(data, LAMBDA kline :
    isWithinSession(kline.openTime, session, Some(timezone)))

\* The strings of PeriodSpec that name a calendar period, and the standard
\* intervals, which are any other string.
NamedPeriods ==
  {"prev_day", "prev_week", "prev_month", "current_day", "current_week",
   "current_month"}

StandardIntervals == {"1h"}

(***************************************************************************)
(* filterDataByPeriod: the candles selected, or the thrown error.  A       *)
(* period that is a string is a record whose type is that string.          *)
(***************************************************************************)
filterDataByPeriod(data, period, timezone, clock) ==
  LET effectiveTimezone == OrElse(timezone, DEFAULT_TIMEZONE)
      Selected(klines) == [thrown |-> FALSE, data |-> klines]
  IN  CASE period.type = "prev_day" ->
             Selected(getPreviousDayData(data, clock))
        [] period.type = "prev_week" ->
             Selected(getPreviousWeekData(data, clock))
        [] period.type = "prev_month" ->
             Selected(getPreviousMonthData(data, clock))
        [] period.type = "current_day" ->
             Selected(getCurrentDayData(data, clock))
        [] period.type = "current_week" ->
             Selected(getCurrentWeekData(data, clock))
        [] period.type = "current_month" ->
             Selected(getCurrentMonthData(data, clock))
        [] period.type \in StandardIntervals ->
             Selected(getStandardIntervalData(data))
        [] period.type = "custom" ->
             Selected(getCustomPeriodData(data, period.startTime,
                                          period.endTime))
        [] period.type = "rolling" ->
             Selected(getRollingPeriodData(data, period.periods))
        [] period.type = "time_session" ->
             Selected(getSessionPeriodData(data, period, effectiveTimezone))
        [] OTHER -> [thrown |-> TRUE, data |-> <<>>]

JsMax(a, b) == IF a >= b THEN a ELSE b

JsMin(a, b) == IF a <= b THEN a ELSE b

enrichKlineData(data) ==
  [i \in DOMAIN data |->
    [openTime |-> data[i].openTime, closeTime |-> data[i].closeTime,
     open |-> data[i].open, high |-> data[i].high, low |-> data[i].low,
     close |-> data[i].close,
     bodyHigh |-> JsMax(data[i].open, data[i].close),
     bodyLow |-> JsMin(data[i].open, data[i].close),
     upperWick |-> data[i].high - JsMax(data[i].open, data[i].close),
     lowerWick |-> JsMin(data[i].open, data[i].close) - data[i].low,
     isGreen |-> data[i].close > data[i].open]]

detectInterval(data) ==
  IF Len(data) < 2
  THEN "unknown"
  ELSE LET timeDiff == (data[2].openTime - data[1].openTime) * MINUTE
       IN  CASE timeDiff <= MINUTE -> "1m"
             [] timeDiff <= 5 * MINUTE -> "5m"
             [] timeDiff <= 15 * MINUTE -> "15m"
             [] timeDiff <= HOUR -> "1h"
             [] timeDiff <= 4 * HOUR -> "4h"
             [] timeDiff <= DAY -> "1d"
             [] OTHER -> "unknown"

\* The value of a candle that the scan compares: the wick's or the body's.
ScannedHighOfWick(kline, useBodyHighLow) == kline.high

ScannedHigh(kline, useBodyHighLow) ==
  IF useBodyHighLow THEN kline.bodyHigh ELSE kline.high

ScannedLow(kline, useBodyHighLow) ==
  IF useBodyHighLow THEN kline.bodyLow ELSE kline.low

(***************************************************************************)
(* calculateHighLow's loop.  highest starts at -Infinity and is replaced   *)
(* only by a strictly larger value, so it ends at the largest scanned high *)
(* and highTime at the first candle that has it; likewise lowest and       *)
(* lowTime.  (The loop is not unrolled: the data may be a hundred candles  *)
(* long.)                                                                  *)
(***************************************************************************)
FirstHighest(data, useBodyHighLow) ==
  CHOOSE i \in DOMAIN data :
    /\ \A j \in DOMAIN data :
         ScannedHigh(data[j], useBodyHighLow)
           <= ScannedHigh(data[i], useBodyHighLow)
    /\ \A j \in 1..(i - 1) :
         ScannedHigh(data[j], useBodyHighLow)
           < ScannedHigh(data[i], useBodyHighLow)

FirstLowest(data, useBodyHighLow) ==
  CHOOSE i \in DOMAIN data :
    /\ \A j \in DOMAIN data :
         ScannedLow(data[j], useBodyHighLow)
           >= ScannedLow(data[i], useBodyHighLow)
    /\ \A j \in 1..(i - 1) :
         ScannedLow(data[j], useBodyHighLow)
           > ScannedLow(data[i], useBodyHighLow)

Scan(data, useBodyHighLow) ==
  LET h == data[FirstHighest(data, useBodyHighLow)]
      l == data[FirstLowest(data, useBodyHighLow)]
  IN  [highest |-> Some(ScannedHigh(h, useBodyHighLow)),
       highTime |-> h.openTime,
       lowest |-> Some(ScannedLow(l, useBodyHighLow)),
       lowTime |-> l.openTime]

\* calculateHighLow, for the non-empty data calculate hands it.
calculateHighLow(data, cfg) ==
  LET useBodyHighLow == OrElse(cfg.useBodyHighLow, FALSE)
      scanned == Scan(data, useBodyHighLow)
      highest == scanned.highest[1]
      lowest == scanned.lowest[1]
      range == highest - lowest
      rangePercent ==
        IF lowest > 0
        THEN RatMul(Rat(range, lowest), RatInt(100))
        ELSE RatInt(0)
  IN  [interval |-> IF Len(data) > 0 THEN detectInterval(data) ELSE "unknown",
       high |-> highest, low |-> lowest,
       highTime |-> scanned.highTime, lowTime |-> scanned.lowTime,
       range |-> range, rangePercent |-> rangePercent]

IndicatorError(message) == [kind |-> "error", message |-> message]

\* What calculate answers, with the candles the period selected.
calculate(data, cfg, clock) ==
  IF ~IndicatorValidate(data)
  THEN [outcome |-> IndicatorError("Invalid data provided to HighLowIndicator"),
        filtered |-> <<>>]
  ELSE LET filteredData ==
             filterDataByPeriod(data, cfg.period, cfg.timezone, clock)
       IN  IF filteredData.thrown
           THEN [outcome |-> IndicatorError("Unsupported period type"),
                 filtered |-> <<>>]
           ELSE IF Len(filteredData.data) = 0
           THEN [outcome |-> IndicatorError("No data available for period"),
                 filtered |-> <<>>]
           ELSE [outcome |->
                   [kind |-> "result",
                    result |->
                      calculateHighLow(enrichKlineData(filteredData.data),
                                       cfg)],
                 filtered |-> filteredData.data]

Calculate(data, cfg, clock) ==
  /\ ~indicator.called
  /\ indicator' =
       [called |-> TRUE, data |-> data, config |-> cfg, clock |-> clock,
        outcome |-> calculate(data, cfg, clock).outcome,
        filtered |-> calculate(data, cfg, clock).filtered]
  /\ UNCHANGED <<membership, aligned, lazy, outsideIndicator>>

(***************************************************************************)
(* The calls made.  Candles open at 10:00 on Wednesday 31 January or at    *)
(* 14:00 on Thursday 1 February; the clock reads 16:00 that Thursday or    *)
(* noon on Monday 5 February, so that every calendar period selects some   *)
(* candle under one clock and none under the other.  Among the candles are *)
(* some whose high is below their low and some whose open lies outside     *)
(* [low, high].                                                            *)
(***************************************************************************)
MaxCandles == 2

At(day, hour) == day * MinutesPerDay + hour * MinutesPerHour

EarlyOpen == At(30, 10)

LateOpen == At(31, 14)

Clocks == {At(31, 16), At(35, 12)}

Candles ==
  {Candle(EarlyOpen, o, h, l, 2) : o \in {1, 3}, h \in {2, 4}, l \in {0, 1, 3}}
    \cup {Candle(LateOpen, 1, h, l, 2) : h \in {2, 4}, l \in {0, 1, 3}}

\* One candle more than a standard interval keeps, an hour apart, oldest
\* first and newest first.
HourlySeries ==
  [i \in 1..(StandardIntervalLimit + 1) |->
    Candle(EarlyOpen + (i - 1) * MinutesPerHour, 1, 2 + 2 * (i % 2), 1, 2)]

LongSeries == {HourlySeries, Reversed(HourlySeries)}

CandleSeries ==
  UNION {[1..n -> Candles] : n \in 0..MaxCandles} \cup LongSeries

PeriodOfType(type) ==
  [type |-> type, startTime |-> 0, endTime |-> 0, periods |-> 0,
   startHour |-> 0, endHour |-> 0, startMinute |-> Undefined,
   endMinute |-> Undefined, timezone |-> Undefined]

CustomPeriod(startTime, endTime) ==
  [PeriodOfType("custom") EXCEPT !.startTime = startTime,
                                 !.endTime = endTime]

RollingPeriod(periods) == [PeriodOfType("rolling") EXCEPT !.periods = periods]

SessionPeriod(startHour, endHour) ==
  [PeriodOfType("time_session") EXCEPT !.startHour = startHour,
                                       !.endHour = endHour]

PeriodSpecs ==
  {PeriodOfType(type) : type \in NamedPeriods \cup StandardIntervals}
    \cup {CustomPeriod(EarlyOpen, EarlyOpen + MinutesPerHour - 1),
          CustomPeriod(LateOpen, EarlyOpen + MinutesPerHour - 1)}
    \cup {RollingPeriod(periods) : periods \in 0..2}
    \cup {SessionPeriod(3, 8), SessionPeriod(8, 4),
          [SessionPeriod(18, 20) EXCEPT !.timezone = Some("Asia/Tokyo")]}
    \cup {PeriodOfType("other")}

IndicatorConfigs ==
  {[period |-> period, useBodyHighLow |-> useBodyHighLow,
    timezone |-> Undefined] :
     period \in PeriodSpecs, useBodyHighLow \in {Undefined, Some(TRUE)}}
    \cup {[period |-> SessionPeriod(3, 8), useBodyHighLow |-> useBodyHighLow,
           timezone |-> Some("UTC")] :
            useBodyHighLow \in {Undefined, Some(TRUE)}}
    \cup {[period |-> period, useBodyHighLow |-> Undefined,
           timezone |-> Some("Asia/Tokyo")] :
            period \in {PeriodOfType("prev_day"), SessionPeriod(18, 20)}}
    \cup {[period |-> [SessionPeriod(18, 20) EXCEPT
                         !.timezone = Some("Asia/Tokyo")],
           useBodyHighLow |-> Undefined, timezone |-> Some("UTC")]}

\* Only the calendar periods use the clock that filterDataByPeriod reads.
ClocksOf(period) ==
  IF period.type \in NamedPeriods THEN Clocks ELSE {At(31, 16)}

(***************************************************************************)
(* isWithinSession called directly: instants around the bounds of a day    *)
(* session and of a session that crosses midnight, with and without the    *)
(* minutes, in the session's zone, the caller's or the default one.        *)
(***************************************************************************)
IsWithinSession(date, session, timezone) ==
  /\ ~membership.asked
  /\ membership' =
       [asked |-> TRUE, date |-> date, session |-> session,
        timezone |-> timezone,
        answer |-> isWithinSession(date, session, timezone)]
  /\ UNCHANGED <<indicator, aligned, lazy, outsideIndicator>>

SessionDates ==
  {At(30, hour) + minute :
     hour \in {0, 3, 8, 12, 13, 18, 22, 23}, minute \in {0, 1, 29, 30, 31, 59}}

DirectSessions ==
  {[SessionPeriod(startHour, endHour) EXCEPT
      !.startMinute = startMinute, !.endMinute = endMinute,
      !.timezone = timezone] :
     startHour \in {3, 22}, endHour \in {3, 8},
     startMinute \in {Undefined, Some(0), Some(30)},
     endMinute \in {Undefined, Some(30)},
     timezone \in {Undefined, Some("UTC")}}

DirectTimezones == {Undefined, Some("Asia/Tokyo"), Some("Mars/Olympus")}

IsWithinSessionAny ==
  /\ ~membership.asked
  /\ \E date \in SessionDates, session \in DirectSessions,
        timezone \in DirectTimezones :
       IsWithinSession(date, session, timezone)

SessionNext == IsWithinSessionAny

SessionSpec == Init /\ [][SessionNext]_vars

CalculateAny ==
  /\ ~indicator.called
  /\ \E data \in CandleSeries, cfg \in IndicatorConfigs :
       \E clock \in ClocksOf(cfg.period) : Calculate(data, cfg, clock)

IndicatorNext == CalculateAny

IndicatorSpec == Init /\ [][IndicatorNext]_vars

(***************************************************************************)
(* Properties of the indicator.                                            *)
(***************************************************************************)
\* The candle invariant: low <= min(open, close) <= max(open, close) <= high.
CandleInvariant(kline) ==
  /\ kline.low <= kline.open /\ kline.low <= kline.close
  /\ kline.open <= kline.high /\ kline.close <= kline.high

HighLowReturned == indicator.called /\ indicator.outcome.kind = "result"

BodyMode == indicator.config.useBodyHighLow = Some(TRUE)

\* The per-candle values the setting of useBodyHighLow chooses.
ChosenHigh(kline) ==
  IF BodyMode
  THEN IF kline.open >= kline.close THEN kline.open ELSE kline.close
  ELSE kline.high

ChosenLow(kline) ==
  IF BodyMode
  THEN IF kline.open <= kline.close THEN kline.open ELSE kline.close
  ELSE kline.low

\* C29: every result the indicator returns has low <= high and
\* range = high - low, high is the maximum and low the minimum of the chosen
\* per-candle values (high and low, or the larger and the smaller of open
\* and close in body mode) over the candles the period selected, and
\* rangePercent is range * 100 / low when low > 0 and 0 otherwise.
C29_ResultIsExtremaOfFiltered ==
  HighLowReturned =>
    LET r == indicator.outcome.result
        filtered == indicator.filtered
    IN  /\ r.low <= r.high
        /\ r.range = r.high - r.low
        /\ \E i \in DOMAIN filtered : ChosenHigh(filtered[i]) = r.high
        /\ \A i \in DOMAIN filtered : ChosenHigh(filtered[i]) <= r.high
        /\ \E i \in DOMAIN filtered : ChosenLow(filtered[i]) = r.low
        /\ \A i \in DOMAIN filtered : ChosenLow(filtered[i]) >= r.low
        /\ IF r.low > 0
           THEN r.rangePercent.n * r.low = r.range * 100 * r.rangePercent.d
           ELSE r.rangePercent = RatInt(0)

\* Two candles that obey the candle invariant, in body mode: the result is
\* the body's extent, below the wicks' high, and rangePercent is not 0.
C29_Witness ==
  /\ HighLowReturned
  /\ BodyMode
  /\ Len(indicator.filtered) = 2
  /\ \A i \in DOMAIN indicator.data : CandleInvariant(indicator.data[i])
  /\ indicator.outcome.result.high = 3
  /\ indicator.outcome.result.low = 1
  /\ \E i \in DOMAIN indicator.filtered : indicator.filtered[i].high = 4
  /\ indicator.outcome.result.rangePercent = RatInt(200)

InvalidDataError ==
  /\ indicator.called
  /\ indicator.outcome = IndicatorError("Invalid data provided to HighLowIndicator")

EmptyPeriodError ==
  /\ indicator.called
  /\ indicator.outcome = IndicatorError("No data available for period")

ObeysCandleInvariant(data) ==
  /\ Len(data) # 0
  /\ \A i \in DOMAIN data : CandleInvariant(data[i])

\* The candles the period selects from the data of the call.
SelectedByPeriod ==
  filterDataByPeriod(indicator.data, indicator.config.period,
                     indicator.config.timezone, indicator.clock)

\* C30: calculate validates before it filters: it fails with the
\* invalid-data error, returning no result, when the candle sequence is
\* empty or some candle violates low <= min(open, close) <=
\* max(open, close) <= high, whatever the period; and when the sequence is
\* valid but the period selects no candle it fails with the empty-period
\* error.
C30_InvalidDataRejected ==
  indicator.called =>
    /\ ~ObeysCandleInvariant(indicator.data) => InvalidDataError
    /\ ( /\ ObeysCandleInvariant(indicator.data)
         /\ ~SelectedByPeriod.thrown
         /\ Len(SelectedByPeriod.data) = 0 ) => EmptyPeriodError

\* The period of the call applied to the candles it selected, at the same
\* instant.
SelectedAgain ==
  filterDataByPeriod(SelectedByPeriod.data, indicator.config.period,
                     indicator.config.timezone, indicator.clock)

\* No two candles of the call open at the same instant.
DistinctOpenTimes ==
  \A i, j \in DOMAIN indicator.data :
    indicator.data[i].openTime = indicator.data[j].openTime => i = j

\* C31: the period filter is idempotent: for every period and candle
\* sequence, the filter applied to its own output at the same instant
\* returns that output unchanged, in the same order.
C31_FilterIdempotent ==
  (indicator.called /\ ~SelectedByPeriod.thrown) =>
    SelectedAgain.data = SelectedByPeriod.data

\* How many times candle occurs in seq.
Occurrences(seq, candle) == Cardinality({i \in DOMAIN seq : seq[i] = candle})

\* out is made of `count` candles of data (all of them if data has fewer),
\* none of the candles left out opens after one that was taken, and out is in
\* ascending openTime order.
LatestAscending(out, data, count) ==
  /\ Len(out) = (IF count < Len(data) THEN count ELSE Len(data))
  /\ \A i \in DOMAIN out :
       Occurrences(out, out[i]) <= Occurrences(data, out[i])
  /\ \A i \in DOMAIN data :
       Occurrences(out, data[i]) < Occurrences(data, data[i]) =>
         \A j \in DOMAIN out : data[i].openTime <= out[j].openTime
  /\ \A i, j \in DOMAIN out :
       i < j => out[i].openTime <= out[j].openTime

\* C32: a rolling period with n periods selects exactly the n candles with
\* the latest openTime (all candles when there are fewer), a standard
\* interval exactly the 100 latest (or all), and both give them in ascending
\* openTime order whatever the order of the input.
C32_LatestCandlesAscending ==
  indicator.called =>
    /\ indicator.config.period.type = "rolling" =>
         LatestAscending(SelectedByPeriod.data, indicator.data,
                         indicator.config.period.periods)
    /\ indicator.config.period.type \in StandardIntervals =>
         LatestAscending(SelectedByPeriod.data, indicator.data, 100)

\* A standard interval over 101 candles given newest first: the oldest one
\* is dropped and the rest comes out oldest first.
C32_Witness ==
  /\ indicator.called
  /\ indicator.config.period.type \in StandardIntervals
  /\ indicator.data = Reversed(HourlySeries)
  /\ Len(indicator.filtered) = 100
  /\ indicator.filtered[1].openTime = EarlyOpen + MinutesPerHour
  /\ indicator.filtered[100] = indicator.data[1]

\* The zone a period is evaluated in: the period's own timezone if given,
\* else the configuration's, else America/New_York; and the hours its wall
\* clock is ahead of UTC.
EffectiveZone ==
  IF indicator.config.period.timezone # Undefined
  THEN indicator.config.period.timezone[1]
  ELSE IF indicator.config.timezone # Undefined
       THEN indicator.config.timezone[1]
       ELSE "America/New_York"

EffectiveOffset == TimezoneOffset(EffectiveZone) * MinutesPerHour

\* Yesterday 00:00 of the effective zone, as an instant.
YesterdayStart ==
  StartOfDay(indicator.clock + EffectiveOffset - MinutesPerDay)
    - EffectiveOffset

InYesterdayOfZone(kline) ==
  /\ kline.openTime >= YesterdayStart
  /\ kline.closeTime <= YesterdayStart + MinutesPerDay - 1

\* The wall-clock minute of the day, in the effective zone, at which kline
\* opens, and whether the session of the call holds it.
WallClockMinute(kline) == (kline.openTime + EffectiveOffset) % MinutesPerDay

InSessionOfZone(kline) ==
  LET session == indicator.config.period
      start == session.startHour * 60
                 + (IF session.startMinute = Undefined
                    THEN 0 ELSE session.startMinute[1])
      end == session.endHour * 60
               + (IF session.endMinute = Undefined
                  THEN 0 ELSE session.endMinute[1])
      m == WallClockMinute(kline)
  IN  IF start <= end THEN start <= m /\ m <= end ELSE m >= start \/ m <= end

\* C33: every period window is evaluated in the effective zone (the
\* period's timezone, else the configuration's, else America/New_York):
\* prev_day keeps exactly the candles within yesterday 00:00 to 23:59:59.999
\* of that zone, and a session keeps exactly the candles whose wall-clock
\* opening time in that zone is in the session.
C33_WindowsInEffectiveZone ==
  indicator.called =>
    /\ indicator.config.period.type = "prev_day" =>
         SelectedByPeriod.data = SelectSeq(indicator.data, InYesterdayOfZone)
    /\ indicator.config.period.type = "time_session" =>
         SelectedByPeriod.data = SelectSeq(indicator.data, InSessionOfZone)

(***************************************************************************)
(* Properties of isWithinSession (checked under SessionSpec).              *)
(***************************************************************************)
\* The minute of the day of the call's instant on the wall clock of the
\* session zone.
SessionMinuteOfDay ==
  LET zone == IF membership.session.timezone # Undefined
              THEN membership.session.timezone[1]
              ELSE IF membership.timezone # Undefined
                   THEN membership.timezone[1]
                   ELSE "America/New_York"
      offset == CASE zone = "America/New_York" -> -5
                  [] zone = "Asia/Tokyo" -> 9
                  [] OTHER -> 0
  IN  (membership.date + offset * 60) % 1440

SessionStart ==
  membership.session.startHour * 60
    + (IF membership.session.startMinute = Undefined
       THEN 0 ELSE membership.session.startMinute[1])

SessionEnd ==
  membership.session.endHour * 60
    + (IF membership.session.endMinute = Undefined
       THEN 0 ELSE membership.session.endMinute[1])

\* C34: isWithinSession is true exactly when the minute of the day m in the
\* session zone satisfies start <= m <= end when start <= end, and m >= start
\* or m <= end when start > end, with start = startHour * 60 + startMinute
\* and end = endHour * 60 + endMinute, a missing minute counting as 0.
C34_SessionMembership ==
  membership.asked =>
    ( membership.answer <=>
        IF SessionStart <= SessionEnd
        THEN SessionStart <= SessionMinuteOfDay
               /\ SessionMinuteOfDay <= SessionEnd
        ELSE SessionMinuteOfDay >= SessionStart
               \/ SessionMinuteOfDay <= SessionEnd )

\* A session that crosses midnight, without a start minute, holds the
\* instant that falls on its last minute.
C34_Witness ==
  /\ membership.asked
  /\ membership.answer
  /\ membership.session.startMinute = Undefined
  /\ SessionStart > SessionEnd
  /\ SessionMinuteOfDay = SessionEnd

(***************************************************************************)
(* Interval-aligned candle times (time-utils, used by getKlines of the     *)
(* Binance provider).  Instants and durations are milliseconds here.  The  *)
(* month, 30 days, is 2,592,000,000 ms, beyond the integers TLC computes   *)
(* with: '1M' is left out of the table and is never passed.                *)
(***************************************************************************)
WEEK == 604800000

getIntervalMs(interval) ==
  CASE interval = "1m" -> MINUTE
    [] interval = "3m" -> 3 * MINUTE
    [] interval = "5m" -> 5 * MINUTE
    [] interval = "15m" -> 15 * MINUTE
    [] interval = "30m" -> 30 * MINUTE
    [] interval = "1h" -> HOUR
    [] interval = "2h" -> 2 * HOUR
    [] interval = "4h" -> 4 * HOUR
    [] interval = "6h" -> 6 * HOUR
    [] interval = "8h" -> 8 * HOUR
    [] interval = "12h" -> 12 * HOUR
    [] interval = "1d" -> DAY
    [] interval = "3d" -> 3 * DAY
    [] interval = "1w" -> WEEK
    [] OTHER -> MINUTE

\* Math.floor(date.getTime() / ms) * ms; \div rounds down as Math.floor does.
getIntervalStartTimeRoundedUp(timestamp, interval) ==
  LET ms == getIntervalMs(interval)
  IN  ((timestamp + ms - 1) \div ms) * ms

getIntervalStartTime(timestamp, interval) ==
  LET ms == getIntervalMs(interval)
      unixTime == (timestamp \div ms) * ms
  IN  unixTime

getIntervalEndTime(timestamp, interval) ==
  LET startTime == getIntervalStartTime(timestamp, interval)
      ms == getIntervalMs(interval)
  IN  startTime + ms - 1

\* The openTime and closeTime getKlines gives the candle the venue stamped
\* with timestamp.
AlignCandle(timestamp, interval) ==
  /\ ~aligned.asked
  /\ aligned' =
       [asked |-> TRUE, timestamp |-> timestamp, interval |-> interval,
        openTime |-> getIntervalStartTime(timestamp, interval),
        closeTime |-> getIntervalEndTime(timestamp, interval)]
  /\ UNCHANGED <<indicator, membership, lazy, outsideIndicator>>

MarketIntervals ==
  {"1m", "3m", "5m", "15m", "30m", "1h", "2h", "4h", "6h", "8h", "12h",
   "1d", "3d", "1w"}

\* Venue timestamps on, just before and just after boundaries of the
\* intervals, and in between.
VenueTimestamps ==
  UNION {{t - 1, t, t + 1, t + 12345} :
           t \in {MINUTE, 7 * MINUTE, HOUR, 5 * HOUR, DAY, 2 * DAY, WEEK,
                  2 * WEEK}}
    \cup {0}

AlignCandleAny ==
  /\ ~aligned.asked
  /\ \E timestamp \in VenueTimestamps,
        interval \in MarketIntervals \cup {"10m", ""} :
       AlignCandle(timestamp, interval)

AlignNext == AlignCandleAny

AlignSpec == Init /\ [][AlignNext]_vars

(***************************************************************************)
(* Properties of the candle times (checked under AlignSpec).               *)
(***************************************************************************)
\* The duration of the interval of the call: an interval that is not in the
\* table counts as one minute.
AlignedDuration ==
  IF aligned.interval \in MarketIntervals
  THEN getIntervalMs(aligned.interval)
  ELSE 60000

AdmissionStep ==
  /\ waiters[SoleCaller].pc = "awaitingCheck"
  /\ waiters'[SoleCaller].pc = "returned"

WholeToken == RatLeq(RatInt(1), tokens)

LookbackOf(lookbackPeriods) ==
  IF lookbackPeriods \in {Undefined, Some(0)} THEN 10 ELSE lookbackPeriods[1]

\* Positions of the candles inside the window of the most recent lookback
\* candles.
WindowPositions(klines, lookbackPeriods) ==
  {i \in 1..Len(klines) : i > Len(klines) - LookbackOf(lookbackPeriods)}

\* Positions of the current candle of the adjacent pairs that lie wholly in
\* the window and qualify as a crossing.
QualifyingInWindow ==
  {i \in WindowPositions(cc.klines, cc.lookbackPeriods) :
     /\ i - 1 \in WindowPositions(cc.klines, cc.lookbackPeriods)
     /\ PairCrosses(cc.direction, cc.klines[i - 1].close, cc.klines[i].close,
                    cc.referenceLevel)}

\* C37: checkCrossCondition examines only the adjacent pairs inside the most
\* recent lookback candles (at most lookback - 1 pairs, lookback being 10
\* when omitted): a crossing whose pair is not wholly inside the window is
\* not reported, and when several pairs in the window qualify, crossTime is
\* the openTime of the earliest qualifying current candle.
C37_EarliestCrossInWindow ==
  cc.called =>
    /\ Cardinality({i \in WindowPositions(cc.klines, cc.lookbackPeriods) :
                      i - 1 \in WindowPositions(cc.klines,
                                                cc.lookbackPeriods)})
         <= LookbackOf(cc.lookbackPeriods) - 1
    /\ cc.result.hasCrossed <=> QualifyingInWindow # {}
    /\ cc.result.hasCrossed =>
         \E i \in QualifyingInWindow :
           /\ \A j \in QualifyingInWindow : i <= j
           /\ cc.result.crossTime = Some(cc.klines[i].openTime)

\* Twelve candles swinging across the level with the lookback omitted: the
\* crossing at candle 2 lies before the window (candles 3 to 12) and is
\* passed over, several pairs of the window qualify, and the one reported
\* is the earliest of them, at candle 4.
C37_Witness ==
  /\ cc.called
  /\ cc.lookbackPeriods = Undefined
  /\ cc.direction = CROSS_OVER
  /\ Len(cc.klines) = LongKlineCount
  /\ PairCrosses(cc.direction, cc.klines[1].close, cc.klines[2].close,
                 cc.referenceLevel)
  /\ 2 \notin QualifyingInWindow
  /\ Cardinality(QualifyingInWindow) > 1
  /\ cc.result.hasCrossed
  /\ cc.result.crossTime = Some(cc.klines[4].openTime)

(***************************************************************************)
(* Limiter slots of a Binance request (checked under ProviderSpec).        *)
(***************************************************************************)
LimiterCalls == TraceIdx({"waitForLimit"})

LimiterEvents == TraceIdx({"waitForLimit", "limitResolved", "limitRejected"})

\* C38: a request of the Binance adapter takes one limiter slot however many
\* attempts it needs: getMarketData, getKlines and getTicker24h await
\* waitForLimit once, before the first attempt of retryOperation; a retried
\* attempt does not wait again; and a request that finally fails does
\* nothing more with the limiter, so its slot is not given back.
C38_OneSlotPerRequest ==
  request.provider = "Binance" =>
    /\ Cardinality(LimiterCalls) <= 1
    /\ Requests # {} =>
         /\ Cardinality(LimiterCalls) = 1
         /\ Cardinality(TraceIdx({"limitResolved"})) = 1
         /\ \A i \in Requests : \A j \in LimiterEvents : j < i
    /\ (Finished /\ request.outcome.status = "error"
          /\ request.outcome.origin = "network") =>
         /\ Cardinality(LimiterEvents) = 2
         /\ \A j \in LimiterEvents : j < Len(trace) - 1

\* getKlines on Binance failed on all three attempts after one wait.
C38_Witness ==
  /\ request.provider = "Binance"
  /\ request.method = "getKlines"
  /\ Finished
  /\ request.outcome = Failure("network", DEFAULT_RETRY_ATTEMPTS, TRUE)
  /\ Cardinality(Requests) = DEFAULT_RETRY_ATTEMPTS
  /\ Cardinality(LimiterCalls) = 1

(***************************************************************************)
(* Lazy initialization of BinanceMarketDataProvider under concurrent data  *)
(* requests.  Every data method starts with await ensureInitialized(); the *)
(* requests interleave at their awaits.  A request is followed up to the   *)
(* point where ensureInitialized has returned or thrown.                   *)
(***************************************************************************)
Initializing(c) == lazy.pc[c] \in {"loadMarkets", "fetchStatus"}

\* ensureInitialized: if (!this.isInitialized) await this.initialize(),
\* which runs up to await this.exchange.loadMarkets().
ensureInitialized(c) ==
  /\ lazy.pc[c] = "idle"
  /\ lazy' = [lazy EXCEPT !.pc[c] = IF lazy.isInitialized THEN "proceeded"
                                    ELSE "loadMarkets"]
  /\ UNCHANGED <<indicator, membership, aligned, outsideIndicator>>

\* loadMarkets() resolved: await this.exchange.fetchStatus().
LoadMarketsResolved(c) ==
  /\ lazy.pc[c] = "loadMarkets"
  /\ lazy' = [lazy EXCEPT !.pc[c] = "fetchStatus"]
  /\ UNCHANGED <<indicator, membership, aligned, outsideIndicator>>

\* fetchStatus() resolved: this.isInitialized = true, and the request goes
\* on.
FetchStatusResolved(c) ==
  /\ lazy.pc[c] = "fetchStatus"
  /\ lazy' = [lazy EXCEPT !.pc[c] = "proceeded", !.isInitialized = TRUE,
                          !.succeeded = @ + 1]
  /\ UNCHANGED <<indicator, membership, aligned, outsideIndicator>>

\* loadMarkets() or fetchStatus() rejected: initialize throws and so does
\* the request.
InitializeRejected(c) ==
  /\ Initializing(c)
  /\ lazy' = [lazy EXCEPT !.pc[c] = "failed"]
  /\ UNCHANGED <<indicator, membership, aligned, outsideIndicator>>

\* The request has settled and its caller issues another one.
RequestSettled(c) ==
  /\ lazy.pc[c] \in {"proceeded", "failed"}
  /\ lazy' = [lazy EXCEPT !.pc[c] = "idle"]
  /\ UNCHANGED <<indicator, membership, aligned, outsideIndicator>>

\* disconnect(), up to await this.exchange.close().
LazyDisconnect ==
  /\ ~lazy.disconnecting
  /\ lazy' = [lazy EXCEPT !.disconnecting = TRUE]
  /\ UNCHANGED <<indicator, membership, aligned, outsideIndicator>>

\* close() resolved: this.isInitialized = false.
LazyCloseResolved ==
  /\ lazy.disconnecting
  /\ lazy' = [lazy EXCEPT !.disconnecting = FALSE, !.isInitialized = FALSE,
                          !.succeeded = 0]
  /\ UNCHANGED <<indicator, membership, aligned, outsideIndicator>>

\* close() rejected: disconnect throws before it clears the flag.
LazyCloseRejected ==
  /\ lazy.disconnecting
  /\ lazy' = [lazy EXCEPT !.disconnecting = FALSE]
  /\ UNCHANGED <<indicator, membership, aligned, outsideIndicator>>

EnsureInitializedAny == \E c \in Requesters : ensureInitialized(c)

LoadMarketsResolvedAny == \E c \in Requesters : LoadMarketsResolved(c)

FetchStatusResolvedAny == \E c \in Requesters : FetchStatusResolved(c)

InitializeRejectedAny == \E c \in Requesters : InitializeRejected(c)

RequestSettledAny == \E c \in Requesters : RequestSettled(c)

LazyNext ==
  \/ EnsureInitializedAny
  \/ LoadMarketsResolvedAny
  \/ FetchStatusResolvedAny
  \/ InitializeRejectedAny
  \/ RequestSettledAny
  \/ LazyDisconnect
  \/ LazyCloseResolved
  \/ LazyCloseRejected

LazySpec == Init /\ [][LazyNext]_vars

\* C39: lazy initialization runs at most once per connected period: with
\* several data requests in flight on a provider that is not initialized,
\* at most one run of initialize is under way, at most one run succeeds
\* until the next disconnect, and a request that has gone on past
\* ensureInitialized had the provider initialized by a run that succeeded.
C39_InitializeOncePerPeriod ==
  /\ Cardinality({c \in Requesters : Initializing(c)}) <= 1
  /\ lazy.succeeded <= 1
  /\ \A c \in Requesters :
       (lazy.pc[c] = "proceeded" /\ ~lazy.disconnecting
          /\ lazy.isInitialized) => lazy.succeeded >= 1

\* What does hold of the code: a request goes on past ensureInitialized
\* only in a step that leaves the provider initialized, and a request that
\* finds the provider initialized starts no run of initialize.
LazyProceedsInitialized ==
  [][\A c \in Requesters :
       /\ (lazy.pc[c] # "proceeded" /\ lazy'.pc[c] = "proceeded") =>
            lazy'.isInitialized
       /\ (lazy.isInitialized /\ lazy.pc[c] = "idle") =>
            ~(lazy'.pc[c] = "loadMarkets")]_vars

(***************************************************************************)
(* The keep-alive of CapitalComMarketDataProvider.  onopen of the socket   *)
(* sets an interval timer of 9 minutes whose handle is not kept; every     *)
(* timer calls pingWebSocket once per period.  Time is followed by periods *)
(* of 9 minutes: due counts the timers that have yet to fire in the        *)
(* period under way and pings the pings sent in it (history).  opened says *)
(* whether the socket held in wsClient has opened.                         *)
(***************************************************************************)
\* Interval timers followed.
MaxTimers == 2

\* wsClient.onopen of the socket held in wsClient: setInterval(() =>
\* this.pingWebSocket(), 9 * 60 * 1000).  The new timer fires first in the
\* next period.
SocketOpened ==
  /\ capitalCom.wsClient # "null"
  /\ ~capitalCom.opened
  /\ capitalCom.timers < MaxTimers
  /\ capitalCom' = [capitalCom EXCEPT !.opened = TRUE, !.timers = @ + 1]
  /\ UNCHANGED <<binance, life, wire, initialized, outsideLifecycle>>

\* A timer fires: pingWebSocket() returns at once without a socket or
\* without session tokens, and sends the ping message otherwise.
pingWebSocket ==
  /\ capitalCom.due > 0
  /\ capitalCom' =
       [capitalCom EXCEPT
          !.due = @ - 1,
          !.pings = IF capitalCom.wsClient = "null"
                         \/ capitalCom.sessionTokens = "null"
                      THEN @ ELSE @ + 1]
  /\ UNCHANGED <<binance, life, wire, initialized, outsideLifecycle>>

\* Nine minutes have passed since the period began: every timer set by
\* then is due once in the next period.
PingPeriodElapsed ==
  /\ capitalCom.due = 0
  /\ capitalCom.timers > 0
  /\ capitalCom' = [capitalCom EXCEPT !.due = capitalCom.timers,
                                      !.pings = 0]
  /\ UNCHANGED <<binance, life, wire, initialized, outsideLifecycle>>

KeepAliveNext ==
  \/ CapitalComInitialize
  \/ CapitalComInitializeResolved
  \/ CapitalComInitializeRejected
  \/ CapitalComDisconnect
  \/ CapitalComSessionClosed
  \/ CapitalComSessionCloseFailed
  \/ SocketClosed
  \/ SocketOpened
  \/ pingWebSocket
  \/ PingPeriodElapsed

KeepAliveSpec == Init /\ [][KeepAliveNext]_vars

\* A keep-alive ping is sent only while both the socket and the session
\* tokens are present, hence none between a disconnect and the next
\* initialize that gets through (this part holds of the code).
PingOnlyWhileConnected ==
  [][capitalCom'.pings > capitalCom.pings =>
       /\ capitalCom.wsClient # "null"
       /\ capitalCom.sessionTokens # "null"]_vars

\* C40: across any sequence of initialize and disconnect calls at most one
\* ping timer is active per provider, so that no more than one keep-alive
\* ping is sent per period of 9 minutes (pings being sent only while the
\* socket and the session tokens are present, see PingOnlyWhileConnected).
C40_OnePingTimer ==
  /\ capitalCom.timers <= 1
  /\ capitalCom.pings <= 1

====
